---- MODULE Spec2Model ----
(***************************************************************************)
(* QuranBot: the message parser (nlu.py, search.py) and the audio builder  *)
(* (audio.py, downloader.py).                                              *)
(*                                                                         *)
(* Text is a sequence of atoms.  An atom is one character ("0", ":", " ")  *)
(* or one word that the regular expressions of nlu.py treat as a unit      *)
(* ("to", "page", "from", "sura") or a chapter name of the catalog ("A",   *)
(* "B").  Case is folded in the atoms: every regular expression of nlu.py  *)
(* that reads them is compiled with re.IGNORECASE.                         *)
(***************************************************************************)
EXTENDS Integers, Sequences, FiniteSets, TLC

VARIABLES
    text,       \* the message received
    result,     \* what parse_message returned for it
    pc,         \* "received" or "parsed"
    req,        \* the arguments every gen_mp3 call is made with
    clip,       \* the per-verse clip files on disk
    remote,     \* whether the audio server has each clip
    outFile,    \* the file at output_path
    tempFile,   \* the file at output_dir / temp_<filename>
    fd,         \* where the file each caller's tool is writing is linked
    dl,         \* whether the clip file each caller's download has open is still linked
    cpc,        \* each caller's position in gen_mp3
    files,      \* each caller's list of collected clips
    attempt,    \* each caller's download attempt (0..2)
    gotPath,    \* whether each caller's path variable is a path (not None)
    pend,       \* each caller's pending return or exception on the way through finally
    rets,       \* each caller's finished calls: what each returned or raised
    cb,         \* the callback data of the Text button the router attached
    rd,         \* the positions of the verse list text_handler has read
    fn,         \* the function applied to input
    input,      \* the arguments of a function of search.py or core/audio.py
    output,     \* what the function returned for them
    vreq,       \* the video request each user's handler is serving
    vpc,        \* each user's position in video_generate_handler
    vseen,      \* whether a finished output file was there when each gen_video call began
    vdisk,      \* the files in OUTPUT_DIR / "video"
    ppc,        \* the position of check_and_purge_storage
    pleft,      \* the files _purge_dir_by_mtime has listed and not yet visited
    free,       \* the free disk space, in units of 100 MB
    stale,      \* an older output file of another range in the output directory
    store,      \* the OrderedDict of an LRUCache: its (key, value) pairs in order
    recency,    \* the keys in the cache, from the least to the most recently touched
    evicted     \* the keys the last operation on the cache evicted

nluVars == <<text, result, pc>>

audioVars ==
    <<req, clip, remote, outFile, tempFile, fd, dl, cpc, files, attempt, gotPath,
      pend, rets>>

flowVars == <<cb, rd>>

pureVars == <<fn, input, output>>

videoVars == <<vreq, vpc, vseen, vdisk>>

purgeVars == <<ppc, pleft, free, stale>>

cacheVars == <<store, recency, evicted>>

restVars == <<purgeVars, cacheVars>>

nonAudioVars == <<nluVars, flowVars, pureVars, videoVars, restVars>>

vars == <<nluVars, audioVars, flowVars, pureVars, videoVars, restVars>>

(***************************************************************************)
(* Characters                                                              *)
(***************************************************************************)
\* ASCII decimal digits: matched by \d, parsed by int().
Digits == {"0", "2", "5"}

DigitVal(c) == CASE c = "0" -> 0 [] c = "2" -> 2 [] c = "5" -> 5

\* SUPERSCRIPT TWO (U+00B2): str.isdigit() is True, \d does not match it,
\* int() raises ValueError on it.
SuperDigit == "sup2"

\* What str.isdigit() accepts.
IsDigitChars == Digits \cup {SuperDigit}

IsSpace(c) == c \in {" ", "tab"}

\* The chapter names of the catalog, in catalog order, with their chapter.
SuraNames == << [name |-> "B", sura |-> 1], [name |-> "A", sura |-> 2] >>

\* Arabic letters and marks search.normalize_arabic rewrites.
AlifVariants == {"alif_hamza_above", "alif_hamza_below", "alif_madda", "alif_wasla"}
HamzaCarriers == {"waw_hamza", "ya_hamza"}
Tashkeel == {"fatha", "shadda"}
Tatweel == "tatweel"
ZeroWidth == {"zwnj", "bom"}

(***************************************************************************)
(* Sequence helpers (Python str methods and re functions)                  *)
(***************************************************************************)
RECURSIVE LStrip(_)
LStrip(s) == IF s # <<>> /\ IsSpace(Head(s)) THEN LStrip(Tail(s)) ELSE s

RECURSIVE RStrip(_)
RStrip(s) ==
    IF s # <<>> /\ IsSpace(s[Len(s)]) THEN RStrip(SubSeq(s, 1, Len(s) - 1)) ELSE s

\* str.strip()
Strip(s) == RStrip(LStrip(s))

\* re.sub(r'[...]', to, s) for a character class and a one-character replacement
MapChars(s, class, to) == [i \in DOMAIN s |-> IF s[i] \in class THEN to ELSE s[i]]

\* re.sub(r'[...]', '', s)
RECURSIVE RemoveChars(_, _)
RemoveChars(s, class) ==
    IF s = <<>> THEN <<>>
    ELSE IF Head(s) \in class THEN RemoveChars(Tail(s), class)
         ELSE <<Head(s)>> \o RemoveChars(Tail(s), class)

\* re.sub(r'\s+', ' ', s)
RECURSIVE CollapseSpaces(_)
CollapseSpaces(s) ==
    IF s = <<>> THEN <<>>
    ELSE IF IsSpace(Head(s)) THEN <<" ">> \o CollapseSpaces(LStrip(s))
         ELSE <<Head(s)>> \o CollapseSpaces(Tail(s))

\* The index of the last character of the run of class characters that starts at i
\* (i - 1 when s[i] is not of the class): how far a greedy [class]+ reaches.
RECURSIVE RunEnd(_, _, _)
RunEnd(s, i, class) ==
    IF i <= Len(s) /\ s[i] \in class THEN RunEnd(s, i + 1, class) ELSE i - 1

\* int() of a string of ASCII digits
RECURSIVE IntOf(_)
IntOf(ds) ==
    IF ds = <<>> THEN 0
    ELSE 10 * IntOf(SubSeq(ds, 1, Len(ds) - 1)) + DigitVal(ds[Len(ds)])

\* [int(n) for n in re.findall(r"\d+", s)], the strings converted where the code
\* converts them
RECURSIVE FindNumbers(_, _)
FindNumbers(s, i) ==
    IF i > Len(s) THEN <<>>
    ELSE IF s[i] \in Digits
         THEN LET e == RunEnd(s, i, Digits)
              IN  <<IntOf(SubSeq(s, i, e))>> \o FindNumbers(s, e + 1)
         ELSE FindNumbers(s, i + 1)

\* x in s for a two-character x
Contains2(s, a, b) == \E i \in 1..(Len(s) - 1) : s[i] = a /\ s[i + 1] = b

\* The least index of a set of indexes
MinOf(S) == CHOOSE i \in S : \A j \in S : i <= j

(***************************************************************************)
(* search.normalize_arabic                                                 *)
(***************************************************************************)
\* The same steps with the whitespace steps (11, 12) before the removals
normalize_arabic_spaces_first(s) ==
    LET t1 == MapChars(s, AlifVariants, "alif")
        t3 == MapChars(t1, {"alif_maksura"}, "ya")
        t4 == MapChars(t3, HamzaCarriers, "hamza")
        t12 == Strip(CollapseSpaces(t4))
        t6 == RemoveChars(t12, Tashkeel)
        t7 == RemoveChars(t6, {Tatweel})
    IN  RemoveChars(t7, ZeroWidth)

normalize_arabic(s) ==
    LET t1 == MapChars(s, AlifVariants, "alif")
        t3 == MapChars(t1, {"alif_maksura"}, "ya")
        t4 == MapChars(t3, HamzaCarriers, "hamza")
        t6 == RemoveChars(t4, Tashkeel)
        t7 == RemoveChars(t6, {Tatweel})
        t10 == RemoveChars(t7, ZeroWidth)
        t11 == CollapseSpaces(t10)
    IN  Strip(t11)

(***************************************************************************)
(* nlu.py: chapter names                                                   *)
(***************************************************************************)
\* Python's None for an optional integer is the empty sequence, a value n is <<n>>.
\* A detector's "no match" (None) is the intent NoIntent.
NoIntent == [type |-> "none"]

\* An exception leaving the function.
Raised(e) == [type |-> "raise", exc |-> e]

MinSura == 1
MaxSura == 114
MinPage == 1
MaxPage == 604
ScoreCutoff == 80

\* rapidfuzz.fuzz.WRatio on the model's atoms: 100 for the name itself, 90 (the
\* partial ratio, scaled) for a text that holds the name among other characters,
\* 0 for a text that holds none of the name's characters.
WRatio(t, name) ==
    IF t = <<name>> THEN 100
    ELSE IF \E i \in DOMAIN t : t[i] = name THEN 90 ELSE 0

\* process.extractOne(text, choices, scorer=fuzz.WRatio): the first choice of the
\* best score.
extractOne(t) ==
    CHOOSE i \in DOMAIN SuraNames :
        \A j \in DOMAIN SuraNames :
            \/ WRatio(t, SuraNames[i].name) > WRatio(t, SuraNames[j].name)
            \/ WRatio(t, SuraNames[i].name) = WRatio(t, SuraNames[j].name) /\ i <= j

_match_sura_name(t) ==
    IF Strip(t) = <<>> THEN <<>>
    ELSE LET best == extractOne(t)
         IN  IF WRatio(t, SuraNames[best].name) > ScoreCutoff
             THEN <<SuraNames[best].sura>>
             ELSE <<>>

(***************************************************************************)
(* nlu.py: the chunk parser                                                *)
(***************************************************************************)
\* What re.sub(r"(FROM|SURAH|AYAH|VERSE|SURA|AYA)", "", text, IGNORECASE) removes.
Labels == {"from", "FROM", "sura"}

NoChunk == [ok |-> FALSE, sura |-> 0, aya |-> <<>>]

Chunk(s, a) == [ok |-> TRUE, sura |-> s, aya |-> a]

_parse_chunk(t) ==
    IF t = <<>> THEN NoChunk
    ELSE LET clean     == Strip(RemoveChars(t, Labels))
             numbers   == FindNumbers(clean, 1)
             text_part == Strip(RemoveChars(clean, Digits))
         IN  IF text_part = <<>> /\ numbers # <<>>
             THEN IF ~(MinSura <= numbers[1] /\ numbers[1] <= MaxSura)
                  THEN NoChunk
                  ELSE Chunk(numbers[1],
                             IF Len(numbers) > 1 THEN <<numbers[2]>> ELSE <<>>)
             ELSE LET sura == _match_sura_name(text_part)
                  IN  IF sura # <<>>
                      THEN Chunk(sura[1], IF numbers # <<>> THEN <<numbers[1]>> ELSE <<>>)
                      ELSE NoChunk

\* Python truthiness of an optional integer: neither None nor 0.
Truthy(a) == a # <<>> /\ a[1] # 0

(***************************************************************************)
(* nlu.py: the intent detectors                                            *)
(***************************************************************************)
\* Where re.search(r"(page|...)\s+(\d+)", s) can match: the keyword, one or more
\* spaces, a digit.
PageMatches(s) ==
    {i \in DOMAIN s :
        /\ s[i] = "page"
        /\ LET e == RunEnd(s, i + 1, {" "})
           IN  e >= i + 1 /\ e + 1 <= Len(s) /\ s[e + 1] \in Digits}

_detect_page(s) ==
    IF PageMatches(s) = {} THEN NoIntent
    ELSE LET i        == MinOf(PageMatches(s))
             e        == RunEnd(s, i + 1, {" "})
             page_num == IntOf(SubSeq(s, e + 1, RunEnd(s, e + 1, Digits)))
         IN  IF MinPage <= page_num /\ page_num <= MaxPage
             THEN [type |-> "page", page |-> page_num]
             ELSE NoIntent

\* Where re.search(r"(\d+):(\d+)(?:-(\d+))?", s) can match: a run of digits, a
\* colon, a digit.
ColonMatches(s) ==
    {i \in DOMAIN s :
        /\ s[i] \in Digits
        /\ LET e == RunEnd(s, i, Digits)
           IN  e + 2 <= Len(s) /\ s[e + 1] = ":" /\ s[e + 2] \in Digits}

\* The match object: its start, and the groups as int() reads them (group 3 is
\* optional).
ColonMatch(s) ==
    LET i == MinOf(ColonMatches(s))
        e == RunEnd(s, i, Digits)
        f == RunEnd(s, e + 2, Digits)
    IN  [start |-> i,
         s1    |-> IntOf(SubSeq(s, i, e)),
         a1    |-> IntOf(SubSeq(s, e + 2, f)),
         a2    |-> IF f + 2 <= Len(s) /\ s[f + 1] = "-" /\ s[f + 2] \in Digits
                   THEN <<IntOf(SubSeq(s, f + 2, RunEnd(s, f + 2, Digits)))>>
                   ELSE <<>>]

Aya(s, a) == [type |-> "aya", sura |-> s, aya |-> a]

Range(s, a, b) == [type |-> "range", sura |-> s, from_aya |-> a, to_aya |-> b]

\* A colon rule that never looks at the text before the match.
_detect_colon_notation_numeric(original) ==
    IF ColonMatches(original) = {} THEN NoIntent
    ELSE LET m == ColonMatch(original)
         IN  IF Truthy(m.a2) THEN Range(m.s1, m.a1, m.a2[1]) ELSE Aya(m.s1, m.a1)

_detect_colon_notation(original) ==
    IF ColonMatches(original) = {} THEN NoIntent
    ELSE LET m      == ColonMatch(original)
             prefix == Strip(SubSeq(original, 1, m.start - 1))
             sura   == IF prefix # <<>>
                       THEN _match_sura_name(normalize_arabic(prefix))
                       ELSE <<>>
         IN  IF sura # <<>>
             THEN IF Truthy(m.a2)
                  THEN Range(sura[1], m.s1, m.a2[1])
                  ELSE Range(sura[1], m.s1, m.a1)
             ELSE IF Truthy(m.a2)
                  THEN Range(m.s1, m.a1, m.a2[1])
                  ELSE Aya(m.s1, m.a1)

\* str.isdigit()
isdigit(s) == s # <<>> /\ \A i \in DOMAIN s : s[i] \in IsDigitChars

\* normalized.split("TO ", 1), both parts stripped
RangeSplit(normalized) ==
    LET k == MinOf({i \in 1..(Len(normalized) - 1) :
                       normalized[i] = "TO" /\ normalized[i + 1] = " "})
    IN  [part1 |-> Strip(SubSeq(normalized, 1, k - 1)),
         part2 |-> Strip(SubSeq(normalized, k + 2, Len(normalized)))]

_detect_range(normalized) ==
    IF ~Contains2(normalized, "TO", " ") THEN NoIntent
    ELSE LET part1 == RangeSplit(normalized).part1
             part2 == RangeSplit(normalized).part2
             info1 == _parse_chunk(part1)
         IN  IF ~info1.ok THEN NoIntent
             ELSE LET sura     == info1.sura
                      from_aya == IF Truthy(info1.aya) THEN info1.aya[1] ELSE 1
                      info2    == _parse_chunk(part2)
                      nums     == FindNumbers(part2, 1)
                  IN  IF isdigit(part2)
                      THEN IF \E i \in DOMAIN part2 : part2[i] \notin Digits
                           THEN Raised("ValueError")
                           ELSE Range(sura, from_aya, IntOf(part2))
                      ELSE IF info2.ok /\ Truthy(info2.aya)
                      THEN Range(sura, from_aya, info2.aya[1])
                      ELSE IF nums # <<>>
                      THEN Range(sura, from_aya, nums[1])
                      ELSE NoIntent

_detect_single(normalized) ==
    LET info == _parse_chunk(normalized)
    IN  IF ~info.ok THEN NoIntent
        ELSE IF Truthy(info.aya) THEN Aya(info.sura, info.aya[1])
        ELSE [type |-> "surah", sura |-> info.sura]

(***************************************************************************)
(* nlu.py: parse_message                                                   *)
(***************************************************************************)
\* re.sub(r"(kw)\s+", "KW ", s, flags=re.IGNORECASE): every keyword followed by
\* spaces becomes the marker and one space.
RECURSIVE SubKeyword(_, _, _)
SubKeyword(s, kw, marker) ==
    IF s = <<>> THEN <<>>
    ELSE IF Head(s) = kw /\ Len(s) >= 2 /\ IsSpace(s[2])
         THEN <<marker, " ">> \o SubKeyword(LStrip(Tail(s)), kw, marker)
         ELSE <<Head(s)>> \o SubKeyword(Tail(s), kw, marker)

\* The copy of the message the keyword rules read.
Keywords(t) ==
    LET normalized == normalize_arabic(Strip(t))
    IN  SubKeyword(SubKeyword(normalize_arabic(normalized), "from", "FROM"), "to", "TO")

\* A fallback that hands on the normalized copy of the message.
SearchNormalized(q) == [type |-> "search", query |-> normalize_arabic(q)]

Search(q) == [type |-> "search", query |-> q]

\* The detectors with colon notation tried before the page pattern
parse_message_colon_first(t) ==
    LET original == Strip(t)
        keywords == Keywords(t)
        r1       == _detect_page(keywords)
        r2       == _detect_colon_notation(original)
        r3       == _detect_range(keywords)
        r4       == _detect_single(keywords)
    IN  IF r2 # NoIntent THEN r2
        ELSE IF r1 # NoIntent THEN r1
        ELSE IF r3 # NoIntent THEN r3
        ELSE IF r4 # NoIntent THEN r4
        ELSE Search(original)

\* The first detector, in the order the code tries them, that reports a match or
\* raises; 5 is the fallback.
parse_message(t) ==
    LET original == Strip(t)
        keywords == Keywords(t)
        r1       == _detect_page(keywords)
        r2       == _detect_colon_notation(original)
        r3       == _detect_range(keywords)
        r4       == _detect_single(keywords)
    IN  IF r1 # NoIntent THEN r1
        ELSE IF r2 # NoIntent THEN r2
        ELSE IF r3 # NoIntent THEN r3
        ELSE IF r4 # NoIntent THEN r4
        ELSE Search(original)

(***************************************************************************)
(* The message parser as a state machine: a message arrives, the router     *)
(* parses it.                                                              *)
(***************************************************************************)
MaxLen == 3

Alphabet == Digits \cup {SuperDigit, ":", "-", " ", "to", "page", "A", "x"}

\* How a message opens before its enumerated part: nothing, a chapter name, a
\* number, a chapter name and a verse, a colon reference, a chapter name and the
\* page keyword, the labels.
Leads ==
    {<<>>, <<"B">>, <<"2">>, <<"B", "0">>, <<"2", ":">>, <<"B", "page", " ">>,
     <<"from", " ", "sura", " ">>}

RECURSIVE Strings(_)
Strings(n) ==
    IF n = 0 THEN {<<>>}
    ELSE LET S == Strings(n - 1)
         IN  S \cup {Append(s, c) : s \in {x \in S : Len(x) = n - 1}, c \in Alphabet}

Messages == {l \o s : l \in Leads, s \in Strings(MaxLen)}

(***************************************************************************)
(* audio.py, downloader.py: the audio builder                              *)
(*                                                                         *)
(* Callers run gen_mp3 in worker threads (bot.py, asyncio.to_thread), all   *)
(* with the same arguments.  A step is one access to the file system.  A   *)
(* file is "absent", "writing" (one tool has it open and is writing it),   *)
(* "messy" (tools wrote it at overlapping times), "complete" or "broken"   *)
(* (closed with its content incomplete or damaged).                        *)
(***************************************************************************)
NumCallers == 2
MaxCalls == 2

Callers == 1..NumCallers

Voice == "Alafasy_64kbps"

\* int(quran_data["Sura"][sura][1]): the verse count of each chapter of the corpus
AyaCount == <<2, 1, 2>>

Requests ==
    { [start_sura |-> 1, start_aya |-> 1, end_sura |-> 1, end_aya |-> 1],
      [start_sura |-> 1, start_aya |-> 2, end_sura |-> 3, end_aya |-> 1] }

\* str(n)
RECURSIVE DigitsOf(_)
DigitsOf(n) == IF n < 10 THEN <<n>> ELSE Append(DigitsOf(n \div 10), n % 10)

\* f"{n:03d}"
Pad3(n) ==
    LET d == DigitsOf(n)
    IN  IF Len(d) >= 3 THEN d ELSE [i \in 1..(3 - Len(d)) |-> 0] \o d

range_id(r) ==
    Pad3(r.start_sura) \o Pad3(r.start_aya) \o Pad3(r.end_sura) \o Pad3(r.end_aya)

\* output_dir / f"{voice}-{range_id}.mp3"
output_path(r) == <<Voice, "-">> \o range_id(r) \o <<".mp3">>

\* for aya in range(aya_start, aya_end + 1)
RECURSIVE AyaLoop(_, _, _)
AyaLoop(sura, aya, aya_end) ==
    IF aya > aya_end THEN <<>>
    ELSE <<<<sura, aya>>>> \o AyaLoop(sura, aya + 1, aya_end)

\* A loop that starts every chapter at the start verse of the request
RECURSIVE SuraLoopSameStart(_, _)
SuraLoopSameStart(r, sura) ==
    IF sura > r.end_sura THEN <<>>
    ELSE LET max_aya   == AyaCount[sura]
             aya_start == r.start_aya
             aya_end   == IF sura = r.end_sura THEN r.end_aya ELSE max_aya
         IN  AyaLoop(sura, aya_start, aya_end) \o SuraLoopSameStart(r, sura + 1)

\* for sura in range(start_sura, end_sura + 1)
RECURSIVE SuraLoop(_, _)
SuraLoop(r, sura) ==
    IF sura > r.end_sura THEN <<>>
    ELSE LET max_aya   == AyaCount[sura]
             aya_start == IF sura = r.start_sura THEN r.start_aya ELSE 1
             aya_end   == IF sura = r.end_sura THEN r.end_aya ELSE max_aya
         IN  AyaLoop(sura, aya_start, aya_end) \o SuraLoop(r, sura + 1)

\* The clips of a request in the order gen_mp3 visits them
NeededClips(r) == SuraLoop(r, r.start_sura)

ClipSet(r) == {NeededClips(r)[k] : k \in DOMAIN NeededClips(r)}

\* The clip caller i is at in the collection loop
CurClip(i) == NeededClips(req)[Len(files[i]) + 1]

NoOutcome == [kind |-> "none", path |-> <<>>, exc |-> "", line |-> 0]

Returned(p) == [kind |-> "return", path |-> p, exc |-> "", line |-> 0]

RaisedAt(e, l) == [kind |-> "raise", path |-> <<>>, exc |-> e, line |-> l]

\* Before the calls: no output and no temp file; the clips before the last one
\* needed are on disk, the last one is absent, empty or on disk, and the server
\* has it or not.
AudioInit ==
    /\ req \in Requests
    /\ \E st \in {"absent", "empty", "ok"}, srv \in {"has", "missing"} :
          LET last == NeededClips(req)[Len(NeededClips(req))]
          IN  /\ clip = [c \in ClipSet(req) |-> IF c = last THEN st ELSE "ok"]
              /\ remote = [c \in ClipSet(req) |-> IF c = last THEN srv ELSE "has"]
    /\ outFile = "absent"
    /\ tempFile = "absent"
    /\ fd = [i \in Callers |-> "none"]
    /\ dl = [i \in Callers |-> FALSE]
    /\ cpc = [i \in Callers |-> "idle"]
    /\ files = [i \in Callers |-> <<>>]
    /\ attempt = [i \in Callers |-> 0]
    /\ gotPath = [i \in Callers |-> FALSE]
    /\ pend = [i \in Callers |-> NoOutcome]
    /\ rets = [i \in Callers |-> <<>>]

\* The call of caller i ends with outcome o; its local variables are gone.
Finish(i, o) ==
    /\ rets' = [rets EXCEPT ![i] = Append(@, o)]
    /\ cpc' = [cpc EXCEPT ![i] = "idle"]
    /\ pend' = [pend EXCEPT ![i] = NoOutcome]
    /\ files' = [files EXCEPT ![i] = <<>>]
    /\ attempt' = [attempt EXCEPT ![i] = 0]
    /\ gotPath' = [gotPath EXCEPT ![i] = FALSE]

Goto(i, label) == cpc' = [cpc EXCEPT ![i] = label]

\* path.unlink() of clip c by caller i: a download that has the file open keeps
\* writing a file that no path names any more.
UnlinkClip(i, c) ==
    /\ clip' = [clip EXCEPT ![c] = "absent"]
    /\ dl' = [j \in Callers |->
                IF j # i /\ cpc[j] = "dl_write" /\ CurClip(j) = c THEN FALSE ELSE dl[j]]

\* The calls of gen_mp3 made so far by callers 1..n, ended or not
RECURSIVE CallsMade(_)
CallsMade(n) ==
    IF n = 0 THEN 0
    ELSE CallsMade(n - 1) + Len(rets[n]) + (IF cpc[n] = "idle" THEN 0 ELSE 1)

\* A caller calls gen_mp3.
Start(i) ==
    /\ cpc[i] = "idle"
    /\ CallsMade(NumCallers) < MaxCalls
    /\ Goto(i, "check_out")
    /\ files' = [files EXCEPT ![i] = <<>>]
    /\ UNCHANGED <<req, clip, remote, outFile, tempFile, fd, dl, attempt, gotPath,
                   pend, rets>>

\* A check of the temp path in place of output_path.
OutputExistsTemp == tempFile # "absent"

\* output_path.exists()
OutputExists == outFile # "absent"

\* audio.py 27-32
CheckOutput(i) ==
    /\ cpc[i] = "check_out"
    /\ IF OutputExists
       THEN Finish(i, Returned(output_path(req)))
       ELSE Goto(i, "c_heal") /\ UNCHANGED <<pend, rets, files, attempt, gotPath>>
    /\ UNCHANGED <<req, clip, remote, outFile, tempFile, fd, dl>>

\* audio.py 45-47: an empty clip file is deleted
HealEmpty(i) ==
    /\ cpc[i] = "c_heal"
    /\ IF clip[CurClip(i)] = "empty"
       THEN UnlinkClip(i, CurClip(i))
       ELSE UNCHANGED <<clip, dl>>
    /\ Goto(i, "c_fetch")
    /\ UNCHANGED <<req, remote, outFile, tempFile, fd, files, attempt, gotPath, pend,
                   rets>>

\* audio.py 49-50 and downloader.py 13-16: a clip on disk is taken as it is, a
\* missing one is downloaded
FetchIfAbsent(i) ==
    /\ cpc[i] = "c_fetch"
    /\ IF clip[CurClip(i)] # "absent"
       THEN Goto(i, "c_check") /\ gotPath' = [gotPath EXCEPT ![i] = TRUE]
            /\ UNCHANGED attempt
       ELSE Goto(i, "dl_open") /\ attempt' = [attempt EXCEPT ![i] = 0]
            /\ UNCHANGED gotPath
    /\ UNCHANGED <<req, clip, remote, outFile, tempFile, fd, dl, files, pend, rets>>

\* downloader.py 20-22: urlopen answers and open(path, "wb") creates or truncates
\* the file, or urlopen raises
DlOpen(i) ==
    /\ cpc[i] = "dl_open"
    /\ \/ /\ clip' = [clip EXCEPT ![CurClip(i)] = "empty"]
          /\ dl' = [dl EXCEPT ![i] = TRUE]
          /\ Goto(i, "dl_write")
       \/ /\ Goto(i, "dl_except")
          /\ UNCHANGED <<clip, dl>>
    /\ UNCHANGED <<req, remote, outFile, tempFile, fd, files, attempt, gotPath, pend,
                   rets>>

\* downloader.py 23-24: the body is read and written and the path returned, or
\* the read raises
DlWrite(i) ==
    /\ cpc[i] = "dl_write"
    /\ \/ /\ clip' = IF dl[i] /\ remote[CurClip(i)] = "has"
                     THEN [clip EXCEPT ![CurClip(i)] = "ok"]
                     ELSE clip
          /\ gotPath' = [gotPath EXCEPT ![i] = TRUE]
          /\ Goto(i, "c_check")
       \/ /\ Goto(i, "dl_except")
          /\ UNCHANGED <<clip, gotPath>>
    /\ dl' = [dl EXCEPT ![i] = FALSE]
    /\ UNCHANGED <<req, remote, outFile, tempFile, fd, files, attempt, pend, rets>>

MaxAttempt == 2

\* downloader.py 25-30: the file is deleted; after the third attempt None is
\* returned
DlExcept(i) ==
    /\ cpc[i] = "dl_except"
    /\ IF clip[CurClip(i)] # "absent"
       THEN UnlinkClip(i, CurClip(i))
       ELSE UNCHANGED <<clip, dl>>
    /\ IF attempt[i] = MaxAttempt
       THEN /\ gotPath' = [gotPath EXCEPT ![i] = FALSE]
            /\ Goto(i, "c_check")
            /\ UNCHANGED attempt
       ELSE /\ attempt' = [attempt EXCEPT ![i] = @ + 1]
            /\ Goto(i, "dl_open")
            /\ UNCHANGED gotPath
    /\ UNCHANGED <<req, remote, outFile, tempFile, fd, files, pend, rets>>

\* A check that takes any file on disk, empty or not.
ClipInvalidIfAbsent(i) == ~gotPath[i] \/ clip[CurClip(i)] = "absent"

\* audio.py 52: not path or not path.exists() or path.stat().st_size == 0
ClipInvalid(i) ==
    ~gotPath[i] \/ clip[CurClip(i)] = "absent" \/ clip[CurClip(i)] = "empty"

\* audio.py 52-61: an invalid clip aborts the build, a valid one is appended
CheckClip(i) ==
    /\ cpc[i] = "c_check"
    /\ IF ClipInvalid(i)
       THEN /\ IF gotPath[i] /\ clip[CurClip(i)] # "absent"
               THEN UnlinkClip(i, CurClip(i))
               ELSE UNCHANGED <<clip, dl>>
            /\ Finish(i, RaisedAt("FileNotFoundError", 55))
       ELSE /\ files' = [files EXCEPT ![i] = Append(@, CurClip(i))]
            /\ Goto(i, IF Len(files[i]) + 1 < Len(NeededClips(req))
                       THEN "c_heal" ELSE "ff_open")
            /\ UNCHANGED <<clip, dl, pend, rets, attempt, gotPath>>
    /\ UNCHANGED <<req, remote, outFile, tempFile, fd>>

\* The tool of caller i opens the temp path for writing (created, or truncated
\* under whoever is writing it).
OpenTemp(i) ==
    /\ tempFile' = IF \E j \in Callers \ {i} : fd[j] = "temp" THEN "messy" ELSE "writing"
    /\ fd' = [fd EXCEPT ![i] = "temp"]
    /\ UNCHANGED outFile

\* What a file is once a writer closes it: ok says whether the writer finished
\* its output, others whether another writer still has the file open.
AfterClose(cur, ok, others) ==
    IF others THEN {"messy"}
    ELSE IF ~ok THEN {"broken"}
    ELSE IF cur = "messy" THEN {"complete", "broken"}
    ELSE {"complete"}

\* The tool of caller i closes the file it was writing, wherever that file is
\* linked by now.
CloseFile(i, ok) ==
    /\ fd' = [fd EXCEPT ![i] = "none"]
    /\ LET others == \E j \in Callers \ {i} : fd[j] = fd[i]
       IN  CASE fd[i] = "temp" ->
                  /\ \E st \in AfterClose(tempFile, ok, others) : tempFile' = st
                  /\ UNCHANGED outFile
             [] fd[i] = "out" ->
                  /\ \E st \in AfterClose(outFile, ok, others) : outFile' = st
                  /\ UNCHANGED tempFile
             [] OTHER -> UNCHANGED <<outFile, tempFile>>

\* audio.py 66-96: ffmpeg with the metadata starts and opens the temp file, or
\* fails before it does
FfOpen(i) ==
    /\ cpc[i] = "ff_open"
    /\ \/ OpenTemp(i) /\ Goto(i, "ff_write")
       \/ Goto(i, "fb_open") /\ UNCHANGED <<outFile, tempFile, fd>>
    /\ UNCHANGED <<req, clip, remote, dl, files, attempt, gotPath, pend, rets>>

\* audio.py 66-96: ffmpeg exits, with the output written or with an error
FfExit(i) ==
    /\ cpc[i] = "ff_write"
    /\ \/ CloseFile(i, TRUE) /\ Goto(i, "rename1")
       \/ CloseFile(i, FALSE) /\ Goto(i, "fb_open")
    /\ UNCHANGED <<req, clip, remote, dl, files, attempt, gotPath, pend, rets>>

\* temp.rename(output_path) where the temp file is on disk: the file takes the
\* canonical name, open handles follow the file
RenameTemp ==
    /\ outFile' = tempFile
    /\ tempFile' = "absent"
    /\ fd' = [j \in Callers |->
                IF fd[j] = "temp" THEN "out"
                ELSE IF fd[j] = "out" THEN "orphan" ELSE fd[j]]

\* audio.py 97 (first attempt) and 113 (fallback): the rename, or the
\* FileNotFoundError of a temp file that is gone
Rename(i, at, line) ==
    /\ cpc[i] = at
    /\ IF tempFile # "absent"
       THEN RenameTemp /\ pend' = [pend EXCEPT ![i] = Returned(output_path(req))]
       ELSE /\ pend' = [pend EXCEPT ![i] = RaisedAt("FileNotFoundError", line)]
            /\ UNCHANGED <<outFile, tempFile, fd>>
    /\ Goto(i, "fin_check")
    /\ UNCHANGED <<req, clip, remote, dl, files, attempt, gotPath, rets>>

Rename1(i) == Rename(i, "rename1", 97)

Rename2(i) == Rename(i, "rename2", 113)

\* What the failed fallback raises: RuntimeError for ffmpeg (line 117), the
\* error of shutil.copy as it is (line 120)
FallbackError(i) ==
    IF Len(files[i]) = 1 THEN RaisedAt("OSError", 120) ELSE RaisedAt("RuntimeError", 117)

\* audio.py 102-112: the fallback (a copy of the one clip, or ffmpeg without
\* metadata) opens the temp file, or fails before it does
FbOpen(i) ==
    /\ cpc[i] = "fb_open"
    /\ \/ OpenTemp(i) /\ Goto(i, "fb_write") /\ UNCHANGED pend
       \/ /\ pend' = [pend EXCEPT ![i] = FallbackError(i)]
          /\ Goto(i, "fin_check")
          /\ UNCHANGED <<outFile, tempFile, fd>>
    /\ UNCHANGED <<req, clip, remote, dl, files, attempt, gotPath, rets>>

\* audio.py 102-112: the fallback ends, with the output written or with an error
FbExit(i) ==
    /\ cpc[i] = "fb_write"
    /\ \/ CloseFile(i, TRUE) /\ Goto(i, "rename2") /\ UNCHANGED pend
       \/ /\ CloseFile(i, FALSE)
          /\ pend' = [pend EXCEPT ![i] = FallbackError(i)]
          /\ Goto(i, "fin_check")
    /\ UNCHANGED <<req, clip, remote, dl, files, attempt, gotPath, rets>>

\* A finally clause that leaves the temp file where it is
FinallyLeaveTemp(i) ==
    /\ cpc[i] = "fin_check"
    /\ Finish(i, pend[i])
    /\ UNCHANGED <<req, clip, remote, outFile, tempFile, fd, dl>>

\* audio.py 122: temp.exists() in the finally clause; with no temp file the call
\* ends as it was going to
FinallyCheck(i) ==
    /\ cpc[i] = "fin_check"
    /\ IF tempFile # "absent"
       THEN Goto(i, "fin_unlink") /\ UNCHANGED <<pend, rets, files, attempt, gotPath>>
       ELSE Finish(i, pend[i])
    /\ UNCHANGED <<req, clip, remote, outFile, tempFile, fd, dl>>

\* audio.py 123: temp.unlink(); it raises when the file went away since line 122
FinallyUnlink(i) ==
    /\ cpc[i] = "fin_unlink"
    /\ IF tempFile # "absent"
       THEN /\ tempFile' = "absent"
            /\ fd' = [j \in Callers |-> IF fd[j] = "temp" THEN "orphan" ELSE fd[j]]
            /\ Finish(i, pend[i])
       ELSE /\ Finish(i, RaisedAt("FileNotFoundError", 123))
            /\ UNCHANGED <<tempFile, fd>>
    /\ UNCHANGED <<req, clip, remote, outFile, dl>>

(***************************************************************************)
(* The specifications                                                      *)
(***************************************************************************)
\* No caller is building audio.
AudioQuiet ==
    /\ req = [start_sura |-> 1, start_aya |-> 1, end_sura |-> 1, end_aya |-> 1]
    /\ clip = [c \in ClipSet(req) |-> "absent"]
    /\ remote = [c \in ClipSet(req) |-> "has"]
    /\ outFile = "absent"
    /\ tempFile = "absent"
    /\ fd = [i \in Callers |-> "none"]
    /\ dl = [i \in Callers |-> FALSE]
    /\ cpc = [i \in Callers |-> "idle"]
    /\ files = [i \in Callers |-> <<>>]
    /\ attempt = [i \in Callers |-> 0]
    /\ gotPath = [i \in Callers |-> FALSE]
    /\ pend = [i \in Callers |-> NoOutcome]
    /\ rets = [i \in Callers |-> <<>>]

\* No message is being parsed.
NluQuiet ==
    /\ text = <<>>
    /\ result = NoIntent
    /\ pc = "received"

NluInit ==
    /\ text \in Messages
    /\ result = NoIntent
    /\ pc = "received"

\* nlu.py 169-211, called by the message router on a message
ParseMessage ==
    /\ pc = "received"
    /\ result' = parse_message(text)
    /\ pc' = "parsed"
    /\ UNCHANGED text

\* No Text button is out and nothing was read.
FlowQuiet ==
    /\ cb = <<>>
    /\ rd = {}

\* No function is applied.
PureQuiet ==
    /\ fn = "none"
    /\ input = <<>>
    /\ output = <<>>

\* No video request is being served
NoVideoRequest == [sura |-> 0, start_aya |-> 0, end_aya |-> 0, voice |-> "", lang |-> ""]

\* No video is asked for and the video directory is empty.
VideoQuiet ==
    /\ vreq = [i \in Callers |-> NoVideoRequest]
    /\ vpc = [i \in Callers |-> "idle"]
    /\ vseen = [i \in Callers |-> FALSE]
    /\ vdisk = {}

\* No purge runs; the disk has room and the output directory no older file.
PurgeQuiet ==
    /\ ppc = "idle"
    /\ pleft = <<>>
    /\ free = 0
    /\ stale = "absent"

\* The cache is empty.
CacheQuiet ==
    /\ store = <<>>
    /\ recency = <<>>
    /\ evicted = <<>>

\* Neither the purge nor the cache is in use.
RestQuiet == PurgeQuiet /\ CacheQuiet

\* The message parser on every message of the bounded set
Init == NluInit /\ AudioQuiet /\ FlowQuiet /\ PureQuiet /\ VideoQuiet /\ RestQuiet

Next == ParseMessage /\ UNCHANGED <<audioVars, flowVars, pureVars, videoVars, restVars>>

Spec == Init /\ [][Next]_vars

\* Concurrent callers of gen_mp3 over one output directory
AudioSpecInit ==
    AudioInit /\ NluQuiet /\ FlowQuiet /\ PureQuiet /\ VideoQuiet /\ RestQuiet

\* gen_mp3 (audio.py 15-125) run by the callers, one file-system access at a time
AudioNext ==
    \/ \E i \in Callers : Start(i) /\ UNCHANGED nonAudioVars
    \/ \E i \in Callers : CheckOutput(i) /\ UNCHANGED nonAudioVars
    \/ \E i \in Callers : HealEmpty(i) /\ UNCHANGED nonAudioVars
    \/ \E i \in Callers : FetchIfAbsent(i) /\ UNCHANGED nonAudioVars
    \/ \E i \in Callers : DlOpen(i) /\ UNCHANGED nonAudioVars
    \/ \E i \in Callers : DlWrite(i) /\ UNCHANGED nonAudioVars
    \/ \E i \in Callers : DlExcept(i) /\ UNCHANGED nonAudioVars
    \/ \E i \in Callers : CheckClip(i) /\ UNCHANGED nonAudioVars
    \/ \E i \in Callers : FfOpen(i) /\ UNCHANGED nonAudioVars
    \/ \E i \in Callers : FfExit(i) /\ UNCHANGED nonAudioVars
    \/ \E i \in Callers : Rename1(i) /\ UNCHANGED nonAudioVars
    \/ \E i \in Callers : FbOpen(i) /\ UNCHANGED nonAudioVars
    \/ \E i \in Callers : FbExit(i) /\ UNCHANGED nonAudioVars
    \/ \E i \in Callers : Rename2(i) /\ UNCHANGED nonAudioVars
    \/ \E i \in Callers : FinallyCheck(i) /\ UNCHANGED nonAudioVars
    \/ \E i \in Callers : FinallyUnlink(i) /\ UNCHANGED nonAudioVars

AudioSpec == AudioSpecInit /\ [][AudioNext]_vars

(***************************************************************************)
(* The message parser: properties                                          *)
(***************************************************************************)
Parsed == pc = "parsed"

\* An intent of one of the five documented types with that type's fields.
WellFormedIntent(r) ==
    \/ r.type = "page"   /\ DOMAIN r = {"type", "page"} /\ r.page \in Nat
    \/ r.type = "aya"    /\ DOMAIN r = {"type", "sura", "aya"}
                         /\ r.sura \in Nat /\ r.aya \in Nat
    \/ r.type = "range"  /\ DOMAIN r = {"type", "sura", "from_aya", "to_aya"}
                         /\ r.sura \in Nat /\ r.from_aya \in Nat /\ r.to_aya \in Nat
    \/ r.type = "surah"  /\ DOMAIN r = {"type", "sura"} /\ r.sura \in Nat
    \/ r.type = "search" /\ DOMAIN r = {"type", "query"}

\* Which detectors report a match on a message.
PageRuleMatches(t) == _detect_page(Keywords(t)) # NoIntent

ColonRuleMatches(t) == ColonMatches(Strip(t)) # {}

RangeRuleMatches(t) == _detect_range(Keywords(t)) # NoIntent

SingleRuleMatches(t) == _detect_single(Keywords(t)) # NoIntent

\* The chapter the text before the colon match resolves to (<<>> for none).
ColonPrefixSura(t) ==
    LET prefix == Strip(SubSeq(Strip(t), 1, ColonMatch(Strip(t)).start - 1))
    IN  IF prefix = <<>> THEN <<>> ELSE _match_sura_name(normalize_arabic(prefix))

\* The range-keyword rule is the one that decides: no page and no colon match, and
\* the "to" marker is in the message.
InRangeRule(t) ==
    /\ ~PageRuleMatches(t)
    /\ ~ColonRuleMatches(t)
    /\ Contains2(Keywords(t), "TO", " ")

LeftChunk(t) == _parse_chunk(RangeSplit(Keywords(t)).part1)

RightPart(t) == RangeSplit(Keywords(t)).part2

\* C1: for every message parse_message returns one intent of type page, aya,
\* range, surah or search with that type's fields, and never raises.
C1_ParseTotal == Parsed => WellFormedIntent(result)

\* C2: every aya, range or surah intent parse_message returns carries a chapter
\* number in 1..114.
C2_ChapterInRange ==
    Parsed /\ result.type \in {"aya", "range", "surah"}
        => MinSura <= result.sura /\ result.sura <= MaxSura

\* C6 as claimed: when no detector matches, the search query is the message
\* unmodified, character for character.
C6_FallbackQueryUnmodified ==
    /\ Parsed
    /\ ~PageRuleMatches(text) /\ ~ColonRuleMatches(text)
    /\ ~RangeRuleMatches(text) /\ ~SingleRuleMatches(text)
    => result = [type |-> "search", query |-> text]

\* C6 as amended: when no detector matches, the search query is the message with
\* its leading and trailing whitespace removed and nothing else changed.
C6_FallbackQueryStripped ==
    /\ Parsed
    /\ ~PageRuleMatches(text) /\ ~ColonRuleMatches(text)
    /\ ~RangeRuleMatches(text) /\ ~SingleRuleMatches(text)
    => result = [type |-> "search", query |-> Strip(text)]

\* A message with whitespace at both ends fell back to search and lost it.
C6_Witness ==
    /\ Parsed
    /\ text = <<" ", "x", " ">>
    /\ result = [type |-> "search", query |-> <<"x">>]

\* C7: with no page match and no chapter name before it, 'S:A' yields the verse
\* S:A and 'S:A-B' the range A..B of chapter S, the numbers taken as written.
C7_ColonNumeric ==
    /\ Parsed
    /\ ~PageRuleMatches(text)
    /\ ColonRuleMatches(text)
    /\ ColonPrefixSura(text) = <<>>
    => LET m == ColonMatch(Strip(text))
       IN  result = IF m.a2 # <<>> THEN Range(m.s1, m.a1, m.a2[1])
                    ELSE Aya(m.s1, m.a1)

\* C8 as claimed: when the text before a colon match 'X:Y' resolves to chapter N,
\* parse_message returns verses X..Y of chapter N.
C8_NameOverridesChapter ==
    /\ Parsed
    /\ ColonRuleMatches(text)
    /\ ColonMatch(Strip(text)).a2 = <<>>
    /\ ColonPrefixSura(text) # <<>>
    => LET m == ColonMatch(Strip(text))
       IN  result = Range(ColonPrefixSura(text)[1], m.s1, m.a1)

\* C8 as amended: the same, when the page rule, which is tried first, does not match.
C8_NameOverridesChapterNoPage ==
    /\ Parsed
    /\ ~PageRuleMatches(text)
    /\ ColonRuleMatches(text)
    /\ ColonMatch(Strip(text)).a2 = <<>>
    /\ ColonPrefixSura(text) # <<>>
    => LET m == ColonMatch(Strip(text))
       IN  result = Range(ColonPrefixSura(text)[1], m.s1, m.a1)

\* "B 2:5" was parsed as verses 2..5 of chapter 1, the chapter of the name B.
C8_Witness ==
    /\ Parsed
    /\ text = <<"B", "2", ":", "5">>
    /\ result = Range(1, 2, 5)

\* C9: in the range-keyword rule, a left side that resolves to chapter c with
\* verse v and a right side that is a bare integer n yield the range v..n of c.
C9_RangeBareInteger ==
    /\ Parsed
    /\ InRangeRule(text)
    /\ LeftChunk(text).ok /\ LeftChunk(text).aya # <<>>
    /\ RightPart(text) # <<>>
    /\ \A i \in DOMAIN RightPart(text) : RightPart(text)[i] \in Digits
    => result = Range(LeftChunk(text).sura, LeftChunk(text).aya[1],
                      IntOf(RightPart(text)))

\* C10: in the range-keyword rule, two sides that resolve to different chapters
\* (the right side more than a bare integer) yield a range_cross intent with
\* from_sura, from_aya, to_sura and to_aya.
C10_CrossChapterRange ==
    /\ Parsed
    /\ InRangeRule(text)
    /\ LeftChunk(text).ok
    /\ ~isdigit(RightPart(text))
    /\ _parse_chunk(RightPart(text)).ok
    /\ LeftChunk(text).sura # _parse_chunk(RightPart(text)).sura
    => /\ result.type = "range_cross"
       /\ DOMAIN result = {"type", "from_sura", "from_aya", "to_sura", "to_aya"}
       /\ result.from_sura = LeftChunk(text).sura
       /\ result.to_sura = _parse_chunk(RightPart(text)).sura

(***************************************************************************)
(* The audio builder: properties                                           *)
(***************************************************************************)
\* A clip that is not whole on disk and that the server does not have.
PermanentlyMissing(c) == remote[c] = "missing" /\ clip[c] # "ok"

\* C3: with concurrent gen_mp3 calls for one key, the canonical output path is
\* at every moment either absent or a completely written artifact.
C3_CanonicalNeverPartial == outFile \in {"absent", "complete"}

\* C4: when a needed clip is permanently missing, every gen_mp3 call that ends
\* has raised the missing-audio FileNotFoundError and no file is at the canonical
\* output path.
C4_MissingClipAborts ==
    (\E c \in ClipSet(req) : PermanentlyMissing(c))
        => /\ outFile = "absent"
           /\ \A i \in Callers : \A k \in DOMAIN rets[i] :
                  rets[i][k] = RaisedAt("FileNotFoundError", 55)

\* A call collected the first clip, found the second permanently missing and
\* raised, and nothing is at the canonical path.
C4_Witness ==
    /\ Len(NeededClips(req)) >= 2
    /\ clip[NeededClips(req)[1]] = "ok"
    /\ PermanentlyMissing(NeededClips(req)[Len(NeededClips(req))])
    /\ \E i \in Callers : /\ rets[i] # <<>>
                          /\ rets[i][1] = RaisedAt("FileNotFoundError", 55)
    /\ outFile = "absent"

\* C5: once a caller's gen_mp3 call has returned a path, its next call with the
\* same arguments only checks the output path: it collects, downloads and
\* concatenates nothing, leaves every file as it is, and returns the same path.
C5_SecondCallSkips ==
    [][\A i \in Callers :
          (rets[i] # <<>> /\ rets[i][1].kind = "return")
              => /\ cpc'[i] \in {"idle", "check_out"}
                 /\ files'[i] = <<>>
                 /\ cpc'[i] # cpc[i] => UNCHANGED <<outFile, tempFile, clip, fd, dl>>
                 /\ Len(rets'[i]) > Len(rets[i])
                        => rets'[i][Len(rets'[i])] = rets[i][1]]_vars

\* One caller built the artifact alone, called again and was returned the same
\* path, the artifact complete.
C5_Witness ==
    \E i \in Callers :
        /\ Len(rets[i]) = 2
        /\ rets[i][1] = Returned(output_path(req))
        /\ rets[i][2] = rets[i][1]
        /\ outFile = "complete"
        /\ \A j \in Callers \ {i} : rets[j] = <<>> /\ cpc[j] = "idle"

(***************************************************************************)
(* The message parser: range order and the single-chunk rule               *)
(***************************************************************************)
\* The single-chunk rule is the one that decides: no page, colon or range match.
InSingleRule(t) ==
    /\ ~PageRuleMatches(t)
    /\ ~ColonRuleMatches(t)
    /\ ~RangeRuleMatches(t)

\* The chunk the single-chunk rule reads
SingleChunk(t) == _parse_chunk(Keywords(t))

\* C11: every range intent parse_message returns has from_aya <= to_aya.
C11_RangeOrdered ==
    Parsed /\ result.type = "range" => result.from_aya <= result.to_aya

\* C12: in the single-chunk rule an input that resolves to a chapter yields a
\* single verse whenever a verse number was extracted, and the whole chapter only
\* when none was.
C12_VerseWhenExtracted ==
    /\ Parsed
    /\ InSingleRule(text)
    /\ SingleChunk(text).ok
    => result = IF SingleChunk(text).aya # <<>>
                THEN Aya(SingleChunk(text).sura, SingleChunk(text).aya[1])
                ELSE [type |-> "surah", sura |-> SingleChunk(text).sura]

(***************************************************************************)
(* bot.py: from a message to the text of its verses (message_router, then  *)
(* the Text button, then text_handler)                                     *)
(***************************************************************************)
\* int(quran_data["Sura"][s][1]) for the chapters of the catalog: the two chapters
\* the audio builder knows, and two verses in every other chapter.
VerseCount(s) == IF s \in DOMAIN AyaCount THEN AyaCount[s] ELSE 2

\* int(quran_data["Sura"][s][0]): the position in the verse list of the first
\* verse of chapter s
RECURSIVE StartIndex(_)
StartIndex(s) == IF s = 1 THEN 0 ELSE StartIndex(s - 1) + VerseCount(s - 1)

\* len(verses)
NumVerses == StartIndex(MaxSura) + VerseCount(MaxSura)

\* The positions of the verse list that hold the verses of chapter s
Span(s) == StartIndex(s)..(StartIndex(s) + VerseCount(s) - 1)

\* quran_data["Sura"][s] is an entry with fields (entry 0 of the list is empty,
\* the list ends after the last chapter)
HasSuraEntry(s) == MinSura <= s /\ s <= MaxSura

\* bot.py 463-556: the router parses the message and answers a verse, range or
\* chapter with a menu whose Text button carries the reference.  get_sura_name
\* raises IndexError past the end of the chapter list, get_sura_aya_count also
\* on the empty entry 0.
MessageRouter ==
    /\ pc = "parsed"
    /\ CASE result.type = "raise" ->
              pc' = "failed" /\ cb' = <<>>
         [] result.type = "aya" ->
              IF result.sura > MaxSura
              THEN pc' = "failed" /\ cb' = <<>>
              ELSE pc' = "menu" /\ cb' = <<result.sura, result.aya>>
         [] result.type = "range" ->
              IF ~HasSuraEntry(result.sura)
              THEN pc' = "failed" /\ cb' = <<>>
              ELSE pc' = "menu" /\ cb' = <<result.sura, result.from_aya, result.to_aya>>
         [] result.type = "surah" ->
              IF ~HasSuraEntry(result.sura)
              THEN pc' = "failed" /\ cb' = <<>>
              ELSE pc' = "menu" /\ cb' = <<result.sura, 1, VerseCount(result.sura)>>
         [] OTHER ->
              pc' = "answered" /\ cb' = <<>>
    /\ UNCHANGED <<text, result, rd>>

\* The values of text_format (bot.py 579, 597)
Formats == {"off", "msg", "txt", "srt", "lrc"}

\* The verse numbers text_handler looks up, in order: the one verse, or the page
\* of ten it displays and then, for a file format, the whole range
Lookups(start, end, fmt) ==
    LET current_end == IF start + 9 < end THEN start + 9 ELSE end
        shown == IF start = end THEN <<start>>
                 ELSE [k \in 1..(IF current_end >= start THEN current_end - start + 1 ELSE 0)
                          |-> start + k - 1]
        whole == [k \in 1..(IF end >= start THEN end - start + 1 ELSE 0) |-> start + k - 1]
    IN  IF fmt \in {"txt", "srt", "lrc"} THEN shown \o whole ELSE shown

\* verses[k] is an element (Python counts a negative k from the end)
Readable(k) == -NumVerses <= k /\ k < NumVerses

\* The position verses[k] reads
Position(k) == IF k < 0 THEN NumVerses + k ELSE k

\* bot.py 559-618: the user presses Text; text_handler reads
\* verses[start_index + i - 1] for each verse number it looks up, up to the first
\* IndexError
TextHandler ==
    /\ pc = "menu"
    /\ \E fmt \in Formats :
          LET sura  == cb[1]
              start == cb[2]
              end   == IF Len(cb) > 2 THEN cb[3] ELSE start
          IN  IF fmt = "off" THEN pc' = "shown" /\ rd' = {}
              ELSE IF ~HasSuraEntry(sura) THEN pc' = "failed" /\ rd' = {}
              ELSE LET ks  == [j \in DOMAIN Lookups(start, end, fmt) |->
                                 StartIndex(sura) + Lookups(start, end, fmt)[j] - 1]
                       bad == {j \in DOMAIN ks : ~Readable(ks[j])}
                       n   == IF bad = {} THEN Len(ks) ELSE MinOf(bad) - 1
                   IN  /\ rd' = {Position(ks[j]) : j \in 1..n}
                       /\ pc' = IF bad = {} THEN "shown" ELSE "failed"
    /\ UNCHANGED <<text, result, cb>>

\* A message is parsed, answered, and the Text button of the answer pressed
FlowNext ==
    \/ ParseMessage /\ UNCHANGED <<audioVars, flowVars, pureVars, videoVars, restVars>>
    \/ MessageRouter /\ UNCHANGED <<audioVars, pureVars, videoVars, restVars>>
    \/ TextHandler /\ UNCHANGED <<audioVars, pureVars, videoVars, restVars>>

FlowSpec == Init /\ [][FlowNext]_vars

\* C13: whatever the message, text_handler reads the verse list only at
\* positions inside the span of the chapter the message resolved to.
C13_ReadsInsideChapter ==
    cb # <<>> => rd \subseteq (IF HasSuraEntry(cb[1]) THEN Span(cb[1]) ELSE {})

\* What the five steps of parse_message report for the message, in the order
\* of nlu.py 190-211
DetectorResults ==
    << _detect_page(Keywords(text)), _detect_colon_notation(Strip(text)),
       _detect_range(Keywords(text)), _detect_single(Keywords(text)), Search(Strip(text)) >>

\* C22: what parse_message hands back is the outcome of the first of page,
\* colon notation, range, single chunk, fallback search that reports a match;
\* every detector before it reported none.
C22_FirstMatchWins ==
    Parsed =>
        \E k \in 1..5 :
            /\ result = DetectorResults[k]
            /\ DetectorResults[k] # NoIntent
            /\ \A j \in 1..(k - 1) : DetectorResults[j] = NoIntent

\* A message that the page detector and the colon detector both match, with
\* different intents
C22_Witness ==
    /\ Parsed
    /\ DetectorResults[1] # NoIntent
    /\ DetectorResults[2] # NoIntent
    /\ DetectorResults[1] # DetectorResults[2]
    /\ result = DetectorResults[1]

\* Caller i is the only one that has called gen_mp3 so far.
OnlyCaller(i) == \A j \in Callers \ {i} : cpc[j] = "idle" /\ rets[j] = <<>>

\* C23: in calls that no other call overlaps, a failed first attempt is followed
\* by the fallback and by nothing else; when the fallback succeeds the rename
\* puts a complete file at the canonical path and the call is about to return
\* it; when the fallback fails the call raises (RuntimeError at line 117, the
\* error of the copy at line 120) and ends with no file at the canonical path
\* and no temp file.
C23_FallbackOnce ==
    [][\A i \in Callers :
         OnlyCaller(i) =>
           /\ cpc[i] = "ff_write" /\ cpc'[i] # cpc[i] /\ tempFile' = "broken"
                 => cpc'[i] = "fb_open"
           /\ cpc[i] \in {"fb_open", "fb_write"} /\ cpc'[i] # cpc[i]
                 => cpc'[i] \in {"fb_write", "rename2", "fin_check"}
           /\ cpc[i] = "rename2" /\ cpc'[i] # cpc[i]
                 => outFile' = "complete" /\ pend'[i] = Returned(output_path(req))
           /\ cpc[i] \in {"fb_open", "fb_write"} /\ cpc'[i] = "fin_check"
                 => pend'[i].kind = "raise" /\ pend'[i].line \in {117, 120}
           /\ Len(rets'[i]) = Len(rets[i]) + 1 /\ pend[i].kind = "raise"
                 => /\ rets'[i][Len(rets'[i])] = pend[i]
                    /\ outFile' = "absent"
                    /\ tempFile' = "absent"
      ]_vars

\* A call on its own whose first attempt and fallback both failed after opening
\* the temp file, ended
C23_Witness ==
    /\ \A i \in Callers : cpc[i] = "idle"
    /\ rets[1] = <<RaisedAt("RuntimeError", 117)>>
    /\ \A j \in Callers \ {1} : rets[j] = <<>>
    /\ outFile = "absent"
    /\ tempFile = "absent"

(***************************************************************************)
(* downloader.py: download_audio called on its own (download_sura,         *)
(* get_audio_file), by concurrent callers for one clip                     *)
(***************************************************************************)
\* The clip the callers ask for: the one whose state on disk and on the server
\* varies
DaClip == NeededClips(req)[Len(NeededClips(req))]

\* DATA_DIR / "audio" / voice / str(sura) / f"{sura:03d}{aya:03d}.mp3"
clip_path(c) == <<"audio", Voice, DigitsOf(c[1]), Pad3(c[1]) \o Pad3(c[2]), ".mp3">>

\* return None
ReturnedNone == [kind |-> "none_returned", path |-> <<>>, exc |-> "", line |-> 0]

\* A caller calls download_audio.
DaCall(i) ==
    /\ cpc[i] = "idle"
    /\ CallsMade(NumCallers) < MaxCalls
    /\ Goto(i, "da_exists")
    /\ UNCHANGED <<req, clip, remote, outFile, tempFile, fd, dl, files, attempt,
                   gotPath, pend, rets>>

\* downloader.py 13-16: a file at the path is returned as it is
DaExists(i) ==
    /\ cpc[i] = "da_exists"
    /\ IF clip[DaClip] # "absent"
       THEN Goto(i, "da_return") /\ UNCHANGED attempt
       ELSE Goto(i, "da_open") /\ attempt' = [attempt EXCEPT ![i] = 0]
    /\ UNCHANGED <<req, clip, remote, outFile, tempFile, fd, dl, files, gotPath, pend,
                   rets>>

\* downloader.py 20-22: urlopen answers and open(path, "wb") creates or truncates
\* the file, or urlopen raises
DaOpen(i) ==
    /\ cpc[i] = "da_open"
    /\ \/ /\ clip' = [clip EXCEPT ![DaClip] = "empty"]
          /\ dl' = [dl EXCEPT ![i] = TRUE]
          /\ Goto(i, "da_write")
       \/ /\ Goto(i, "da_except")
          /\ UNCHANGED <<clip, dl>>
    /\ UNCHANGED <<req, remote, outFile, tempFile, fd, files, attempt, gotPath, pend,
                   rets>>

\* downloader.py 23: the body is read and written (a server without the clip
\* that answers at all answers with no bytes), or the read raises
DaWrite(i) ==
    /\ cpc[i] = "da_write"
    /\ \/ /\ clip' = IF dl[i] /\ remote[DaClip] = "has"
                     THEN [clip EXCEPT ![DaClip] = "ok"]
                     ELSE clip
          /\ Goto(i, "da_return")
       \/ /\ Goto(i, "da_except")
          /\ UNCHANGED clip
    /\ dl' = [dl EXCEPT ![i] = FALSE]
    /\ UNCHANGED <<req, remote, outFile, tempFile, fd, files, attempt, gotPath, pend,
                   rets>>

\* downloader.py 29-30: after the third attempt None is returned, before that
\* the loop goes on
DaNextAttempt(i) ==
    IF attempt[i] = MaxAttempt
    THEN Finish(i, ReturnedNone)
    ELSE /\ attempt' = [attempt EXCEPT ![i] = @ + 1]
         /\ Goto(i, "da_open")
         /\ UNCHANGED <<files, gotPath, pend, rets>>

\* downloader.py 25-27: the handler of a failed attempt looks for the file
DaExcept(i) ==
    /\ cpc[i] = "da_except"
    /\ IF clip[DaClip] # "absent"
       THEN Goto(i, "da_unlink") /\ UNCHANGED <<files, attempt, gotPath, pend, rets>>
       ELSE DaNextAttempt(i)
    /\ UNCHANGED <<req, clip, remote, outFile, tempFile, fd, dl>>

\* A handler that leaves the file of the failed attempt where it is
DaKeepFile(i) ==
    /\ cpc[i] = "da_unlink"
    /\ DaNextAttempt(i)
    /\ UNCHANGED <<req, clip, remote, outFile, tempFile, fd, dl>>

\* downloader.py 28: path.unlink() (a download that has the file open keeps
\* writing a file no path names); it raises out of the handler when the file
\* went away since line 27
DaUnlink(i) ==
    /\ cpc[i] = "da_unlink"
    /\ IF clip[DaClip] # "absent"
       THEN /\ clip' = [clip EXCEPT ![DaClip] = "absent"]
            /\ dl' = [j \in Callers |-> FALSE]
            /\ DaNextAttempt(i)
       ELSE /\ Finish(i, RaisedAt("FileNotFoundError", 28))
            /\ UNCHANGED <<clip, dl>>
    /\ UNCHANGED <<req, remote, outFile, tempFile, fd>>

\* downloader.py 14 and 24: return path
DaReturn(i) ==
    /\ cpc[i] = "da_return"
    /\ Finish(i, Returned(clip_path(DaClip)))
    /\ UNCHANGED <<req, clip, remote, outFile, tempFile, fd, dl>>

DownloadNext ==
    \/ \E i \in Callers : DaCall(i) /\ UNCHANGED nonAudioVars
    \/ \E i \in Callers : DaExists(i) /\ UNCHANGED nonAudioVars
    \/ \E i \in Callers : DaOpen(i) /\ UNCHANGED nonAudioVars
    \/ \E i \in Callers : DaWrite(i) /\ UNCHANGED nonAudioVars
    \/ \E i \in Callers : DaExcept(i) /\ UNCHANGED nonAudioVars
    \/ \E i \in Callers : DaUnlink(i) /\ UNCHANGED nonAudioVars
    \/ \E i \in Callers : DaReturn(i) /\ UNCHANGED nonAudioVars

DownloadSpec == AudioSpecInit /\ [][DownloadNext]_vars

\* C14: whenever download_audio returns a path, the file at that path exists and
\* is not empty.
C14_ReturnedClipNonEmpty ==
    \A i \in Callers : cpc[i] = "da_return" => clip[DaClip] = "ok"

\* The calls run in threads of their own and urlopen gives up after its
\* timeout: while some call can take a step, a step is taken.
DownloadFairSpec == DownloadSpec /\ WF_vars(DownloadNext)

\* The handler of a failed attempt of caller i is left in this step
DaHandled(i) ==
    cpc[i] \in {"da_except", "da_unlink"} /\ cpc'[i] \in {"da_open", "idle"}

\* What the handler leaves when no other call overlaps: no file at the path of
\* the clip, the next attempt before the third failure, None after it
DaFailsClean(i) ==
    /\ clip'[DaClip] = "absent"
    /\ cpc'[i] = "idle" <=> attempt[i] = MaxAttempt
    /\ cpc'[i] = "idle" => rets'[i][Len(rets'[i])] = ReturnedNone

\* C26: download_audio makes at most three attempts (numbered 0 to 2) and every
\* call ends; in a call that no other call overlaps every failed attempt leaves
\* no file at the path of the clip, and the third failure returns None.
C26_BoundedRetries ==
    /\ [](\A i \in Callers : attempt[i] <= MaxAttempt)
    /\ [][\A i \in Callers : OnlyCaller(i) /\ DaHandled(i) => DaFailsClean(i)]_vars
    /\ \A i \in Callers : (cpc[i] # "idle") ~> (cpc[i] = "idle")

\* A third attempt has failed after its file was opened, and None is returned
C26_Witness ==
    \E i \in Callers :
        /\ OnlyCaller(i)
        /\ rets[i] = <<ReturnedNone>>
        /\ clip[DaClip] = "absent"


(***************************************************************************)
(* Functions of their arguments: core/audio.py gen_timings, search.py and  *)
(* core/search.py.  input is [f |-> the function, arg |-> its arguments]   *)
(* and output is what it returns.                                          *)
(***************************************************************************)
\* The longest clip measured, in ms
MaxDuration == 2

\* duration = 2000 when the duration cannot be measured
FallbackMs == 2000

\* What get_audio_duration_ms does on a clip: raises AudioGenerationError (<<>>)
\* or returns a number of milliseconds
Measures == {<<>>} \cup {<<d>> : d \in 0..MaxDuration}

\* The ranges of one or more verses inside the corpus
TimingRanges ==
    { r \in [start_sura : DOMAIN AyaCount, start_aya : 1..2,
             end_sura : DOMAIN AyaCount, end_aya : 1..2] :
        /\ r.start_aya <= AyaCount[r.start_sura]
        /\ r.end_aya <= AyaCount[r.end_sura]
        /\ \/ r.start_sura < r.end_sura
           \/ r.start_sura = r.end_sura /\ r.start_aya <= r.end_aya }

TimingInputs ==
    UNION { { [f |-> "gen_timings", arg |-> [range |-> r, dur |-> d]] :
                d \in [ClipSet(r) -> Measures] } : r \in TimingRanges }

\* core/audio.py 213-216
duration_of(m) == IF m = <<>> THEN FallbackMs ELSE m[1]

\* A gap of one millisecond after every verse
current_time_gap(entry) == entry.end_ms + 1

\* core/audio.py 228: current_time = end_ms
current_time_after(entry) == entry.end_ms

\* core/audio.py 205-228: the loop over the clips, from current_time on
RECURSIVE TimingLoop(_, _, _)
TimingLoop(clips, dur, current_time) ==
    IF clips = <<>> THEN <<>>
    ELSE LET c      == Head(clips)
             start  == current_time
             end    == current_time + duration_of(dur[c])
             entry  == [sura |-> c[1], aya |-> c[2], start_ms |-> start, end_ms |-> end]
         IN  <<entry>> \o TimingLoop(Tail(clips), dur, current_time_after(entry))

\* core/audio.py 184-230
gen_timings(r, dur) == TimingLoop(NeededClips(r), dur, 0)

GenTimings ==
    /\ fn = "none"
    /\ input.f = "gen_timings"
    /\ fn' = "gen_timings"
    /\ output' = gen_timings(input.arg.range, input.arg.dur)
    /\ UNCHANGED input

PairBefore(x, y) == x[1] < y[1] \/ (x[1] = y[1] /\ x[2] < y[2])

\* The verses of the corpus from the start of range r to its end
RangePairs(r) ==
    { x \in (r.start_sura..r.end_sura) \X (1..2) :
        /\ x[2] <= AyaCount[x[1]]
        /\ ~PairBefore(x, <<r.start_sura, r.start_aya>>)
        /\ ~PairBefore(<<r.end_sura, r.end_aya>>, x) }

\* seq lists exactly the verses of range r, each once, in ascending order
EnumeratesRange(seq, r) ==
    /\ Len(seq) = Cardinality(RangePairs(r))
    /\ {seq[k] : k \in DOMAIN seq} = RangePairs(r)
    /\ \A k \in 1..(Len(seq) - 1) : PairBefore(seq[k], seq[k + 1])

\* The verses of the entries gen_timings emits, in their order
TimingPairs(r, d) ==
    [k \in DOMAIN gen_timings(r, d) |->
        <<gen_timings(r, d)[k].sura, gen_timings(r, d)[k].aya>>]

\* gen_timings lists the verses of every range asked for, whatever the clips
\* measure
TimingsEnumerate ==
    \A r \in Requests : \A d \in [ClipSet(r) -> Measures] :
        EnumeratesRange(TimingPairs(r, d), r)

\* C24: the clips a gen_mp3 call hands to the concatenation are exactly the
\* verses of the requested range, each once, in ascending chapter and verse
\* order, while it collects them it holds a prefix of that list, and
\* gen_timings emits its entries for the same verses in the same order
\* whatever the clips measure.
C24_RangeEnumeration ==
    /\ TimingsEnumerate
    /\ \A i \in Callers :
          /\ cpc[i] \in {"c_heal", "c_fetch", "c_check", "dl_open", "dl_write", "dl_except"}
                => /\ Len(files[i]) < Len(NeededClips(req))
                   /\ \A k \in DOMAIN files[i] : files[i][k] = NeededClips(req)[k]
          /\ cpc[i] \in {"ff_open", "ff_write", "fb_open", "fb_write"}
                => EnumeratesRange(files[i], req)

\* A call at the concatenation of a range that crosses a whole chapter
C24_Witness ==
    \E i \in Callers :
        /\ cpc[i] = "ff_open"
        /\ req.end_sura > req.start_sura + 1
        /\ files[i] = << <<1, 2>>, <<2, 1>>, <<3, 1>> >>

\* Every clip caller i has collected is a non-empty file on disk
ClipsReady(i) == \A k \in DOMAIN files[i] : clip[files[i][k]] = "ok"

\* Caller i hands its list of clips to ffmpeg, or to the fallback, in this step
Concatenates(i) == cpc[i] \in {"ff_open", "fb_open"} /\ cpc'[i] # cpc[i]

\* C25: a clip found with zero length is deleted and fetched again, and the
\* clips handed to the concatenation (ffmpeg at audio.py 66-96, the fallback at
\* audio.py 102-112) are never zero-length files.
C25_NoEmptyClipConcatenated ==
    [][\A i \in Callers : Concatenates(i) => ClipsReady(i)]_vars

\* The same for a build that no other build overlaps
C25_AloneNoEmptyClip ==
    [][\A i \in Callers : OnlyCaller(i) /\ Concatenates(i) => ClipsReady(i)]_vars

\* The rename or the unlink of the temp file failed in a call of caller i,
\* pending or ended: FileNotFoundError at audio.py 97, 113 or 123
LostTemp(i) ==
    \/ pend[i].exc = "FileNotFoundError" /\ pend[i].line \in {97, 113, 123}
    \/ \E k \in DOMAIN rets[i] :
          rets[i][k].exc = "FileNotFoundError" /\ rets[i][k].line \in {97, 113, 123}

\* C29: with every clip on disk, no call among concurrent gen_mp3 calls for the
\* same range fails because another call renamed or removed the temp file first.
C29_NoCallerLosesTemp ==
    (\A c \in ClipSet(req) : clip[c] = "ok") => \A i \in Callers : ~LostTemp(i)

\* A download of some caller has clip c open and has not written its bytes yet
BeingWritten(c) == \E j \in Callers : cpc[j] = "dl_write" /\ CurClip(j) = c /\ dl[j]

\* C30: a clip that a build has found on disk and collected is complete and
\* stays: no build hands a clip to the concatenation while a download is still
\* writing it, and no collected clip is deleted by a failed download attempt
\* while the build that collected it goes on.
C30_CollectedClipsComplete ==
    [][\A i \in Callers : \A k \in DOMAIN files[i] :
          /\ Concatenates(i) => ~BeingWritten(files[i][k])
          /\ files'[i] = files[i] => clip'[files[i][k]] # "absent"]_vars

(***************************************************************************)
(* utils.py: check_and_purge_storage on the output directory while one     *)
(* caller builds with gen_mp3.  Free space is counted in units of 100 MB.  *)
(***************************************************************************)
\* WARN_THRESHOLD_MB = 500
WarnThreshold == 5

\* PURGE_THRESHOLD_MB = 200
PurgeThreshold == 2

\* target_free_mb = PURGE_THRESHOLD_MB * 1.5
PurgeTarget == (PurgeThreshold * 3) \div 2

\* The one caller that builds
Builder == CHOOSE i \in Callers : \A j \in Callers : i <= j

\* utils.py 57-60: the files of the directory, oldest first: the output of
\* another range, then the output or the temp file of this one
OldestFirst ==
    (IF stale # "absent" THEN <<"stale">> ELSE <<>>)
    \o (IF outFile # "absent" THEN <<"out">> ELSE <<>>)
    \o (IF tempFile # "absent" THEN <<"temp">> ELSE <<>>)

\* utils.py 85-108: nothing is done with the free space at the warning level or
\* between the two levels; below the purge level the directory is listed
CheckAndPurge ==
    /\ ppc = "idle"
    /\ IF free >= WarnThreshold
       THEN ppc' = "done" /\ pleft' = <<>>
       ELSE IF free < PurgeThreshold
            THEN ppc' = "loop" /\ pleft' = OldestFirst
            ELSE ppc' = "done" /\ pleft' = <<>>
    /\ UNCHANGED <<free, stale, audioVars>>

\* Whether the file of that name is on disk
OnDisk(f) ==
    CASE f = "stale" -> stale # "absent"
      [] f = "out" -> outFile # "absent"
      [] f = "temp" -> tempFile # "absent"

\* f.unlink() of a listed file: its name goes, a tool that has it open keeps
\* writing a file that no path names, and the space is freed once nobody has it
\* open
PurgeUnlink(f) ==
    /\ stale' = IF f = "stale" THEN "absent" ELSE stale
    /\ outFile' = IF f = "out" THEN "absent" ELSE outFile
    /\ tempFile' = IF f = "temp" THEN "absent" ELSE tempFile
    /\ fd' = [j \in Callers |-> IF fd[j] = f THEN "orphan" ELSE fd[j]]
    /\ free' = IF \E j \in Callers : fd[j] = f THEN free ELSE free + 1

\* utils.py 64-73: the loop ends with enough free space or with the list; else
\* the next file is deleted, and a file that is gone by now is skipped
PurgeVisit ==
    /\ ppc = "loop"
    /\ IF pleft = <<>> \/ free >= PurgeTarget
       THEN /\ ppc' = "done"
            /\ pleft' = <<>>
            /\ UNCHANGED <<free, stale, outFile, tempFile, fd>>
       ELSE /\ pleft' = Tail(pleft)
            /\ UNCHANGED ppc
            /\ IF OnDisk(Head(pleft))
               THEN PurgeUnlink(Head(pleft))
               ELSE UNCHANGED <<free, stale, outFile, tempFile, fd>>
    /\ UNCHANGED <<req, clip, remote, dl, cpc, files, attempt, gotPath, pend, rets>>

\* The disk is at any level of free space and the directory may hold an older
\* output file.
PurgeInit ==
    /\ AudioInit
    /\ ppc = "idle"
    /\ pleft = <<>>
    /\ free \in 0..WarnThreshold
    /\ stale \in {"absent", "complete"}
    /\ NluQuiet /\ FlowQuiet /\ PureQuiet /\ VideoQuiet /\ CacheQuiet

purgeOthers == <<nluVars, flowVars, pureVars, videoVars, cacheVars>>

PurgeNext ==
    \/ Start(Builder) /\ UNCHANGED nonAudioVars
    \/ CheckOutput(Builder) /\ UNCHANGED nonAudioVars
    \/ HealEmpty(Builder) /\ UNCHANGED nonAudioVars
    \/ FetchIfAbsent(Builder) /\ UNCHANGED nonAudioVars
    \/ DlOpen(Builder) /\ UNCHANGED nonAudioVars
    \/ DlWrite(Builder) /\ UNCHANGED nonAudioVars
    \/ DlExcept(Builder) /\ UNCHANGED nonAudioVars
    \/ CheckClip(Builder) /\ UNCHANGED nonAudioVars
    \/ FfOpen(Builder) /\ UNCHANGED nonAudioVars
    \/ FfExit(Builder) /\ UNCHANGED nonAudioVars
    \/ Rename1(Builder) /\ UNCHANGED nonAudioVars
    \/ FbOpen(Builder) /\ UNCHANGED nonAudioVars
    \/ FbExit(Builder) /\ UNCHANGED nonAudioVars
    \/ Rename2(Builder) /\ UNCHANGED nonAudioVars
    \/ FinallyCheck(Builder) /\ UNCHANGED nonAudioVars
    \/ FinallyUnlink(Builder) /\ UNCHANGED nonAudioVars
    \/ CheckAndPurge /\ UNCHANGED purgeOthers
    \/ PurgeVisit /\ UNCHANGED purgeOthers

PurgeSpec == PurgeInit /\ [][PurgeNext]_vars

\* The purge deletes a file in this step
PurgeDeletes(f) == ppc = "loop" /\ pleft' # pleft /\ OnDisk(f) /\ ~OnDisk(f)'

\* C27: the purge never deletes a file that a build is still writing: not the
\* temp file the tool of a gen_mp3 call has open, and not an output file that is
\* still open.
C27_PurgeSparesOpenFiles ==
    [][\A f \in {"temp", "out"} :
          PurgeDeletes(f) => ~\E i \in Callers : fd[i] = f]_vars

(***************************************************************************)
(* utils.py LRUCache (tafsir.py keeps one, _mem_cache): get and set in any *)
(* order on one cache                                                      *)
(***************************************************************************)
\* max_size of the cache
MaxSize == 2

\* More keys than the cache holds
CacheKeys == 1..(MaxSize + 2)

CacheValues == {"v", "w"}

\* key in self._store
HasKey(st, k) == \E n \in DOMAIN st : st[n][1] = k

\* The keys of an OrderedDict
KeysOf(st) == {st[n][1] : n \in DOMAIN st}

\* OrderedDict.move_to_end(key)
move_to_end(st, k) ==
    SelectSeq(st, LAMBDA e : e[1] # k) \o SelectSeq(st, LAMBDA e : e[1] = k)

\* self._store[key] = value: a key that is there keeps its place
store_item(st, k, v) ==
    IF HasKey(st, k)
    THEN [n \in DOMAIN st |-> IF st[n][1] = k THEN <<k, v>> ELSE st[n]]
    ELSE Append(st, <<k, v>>)

\* A get that leaves the order of the keys as it is
cache_get_in_place(st, k) == st

\* utils.py 153-157: LRUCache.get, the store it leaves
cache_get(st, k) == IF ~HasKey(st, k) THEN st ELSE move_to_end(st, k)

\* utils.py 159-162: LRUCache.set before the size is looked at
cache_put(st, k, v) ==
    store_item(IF HasKey(st, k) THEN move_to_end(st, k) ELSE st, k, v)

\* utils.py 163-164: popitem(last=False) when the store is over max_size
cache_set(st, k, v) ==
    IF Len(cache_put(st, k, v)) > MaxSize
    THEN Tail(cache_put(st, k, v))
    ELSE cache_put(st, k, v)

\* The keys by their last touch, after a touch of k
Touched(r, k) == SelectSeq(r, LAMBDA x : x # k) \o <<k>>

\* cache.get(key): a key in the cache is touched
CacheGet ==
    \E k \in CacheKeys :
        /\ store' = cache_get(store, k)
        /\ recency' = IF HasKey(store, k) THEN Touched(recency, k) ELSE recency
        /\ evicted' = <<>>

\* cache.set(key, value): the key is touched, and what popitem removed is gone
CacheSet ==
    \E k \in CacheKeys, v \in CacheValues :
        /\ store' = cache_set(store, k, v)
        /\ evicted' = IF Len(cache_put(store, k, v)) > MaxSize
                      THEN <<Head(cache_put(store, k, v))[1]>>
                      ELSE <<>>
        /\ recency' = SelectSeq(Touched(recency, k),
                                LAMBDA x : HasKey(cache_set(store, k, v), x))

cacheOthers == <<nluVars, audioVars, flowVars, pureVars, videoVars, purgeVars>>

CacheInit ==
    /\ CacheQuiet
    /\ NluQuiet /\ AudioQuiet /\ FlowQuiet /\ PureQuiet /\ VideoQuiet /\ PurgeQuiet

CacheNext ==
    \/ CacheGet /\ UNCHANGED cacheOthers
    \/ CacheSet /\ UNCHANGED cacheOthers

CacheSpec == CacheInit /\ [][CacheNext]_vars

\* This step puts a key that was not in the cache into a full cache
Overflows == Len(store) = MaxSize /\ KeysOf(store') \ KeysOf(store) # {}

\* C28: the cache never holds more than max_size entries; a set that overflows
\* it evicts one entry, the one least recently touched by a get or a set, and
\* no other step removes an entry.
C28_LruEviction ==
    /\ [](Len(store) <= MaxSize /\ KeysOf(store) = {recency[n] : n \in DOMAIN recency})
    /\ [][IF Overflows
          THEN /\ evicted' = <<Head(recency)>>
               /\ KeysOf(store) \ KeysOf(store') = {Head(recency)}
          ELSE /\ evicted' = <<>>
               /\ KeysOf(store) \subseteq KeysOf(store')]_vars

\* Key 1 was set before key 2 and touched again after it: the set of key 3
\* evicted key 2
C28_Witness ==
    /\ evicted = <<2>>
    /\ KeysOf(store) = {1, 3}
    /\ recency = <<1, 3>>

(***************************************************************************)
(* bot.py video_generate_handler and video.py gen_video: every caller      *)
(* presses one video button, and the handlers run gen_video in worker      *)
(* threads over one video directory.  A file there is "writing", "messy"   *)
(* (written by two encoders at once), "complete" or "broken".              *)
(***************************************************************************)
VideoVoices == {Voice, "Husary_64kbps"}

VideoLangs == {"ar", "en"}

\* The callback data of the video buttons and the user's settings: a verse, a
\* range or a whole chapter of the corpus
VideoRequests ==
    { r \in [sura : DOMAIN AyaCount, start_aya : 1..2, end_aya : 1..2,
             voice : VideoVoices, lang : VideoLangs] :
        r.start_aya <= r.end_aya /\ r.end_aya <= AyaCount[r.sura] }

DecimalDigit == <<"0", "1", "2", "3", "4", "5", "6", "7", "8", "9">>

\* str(n), as characters
str(n) == [k \in DOMAIN DigitsOf(n) |-> DecimalDigit[DigitsOf(n)[k] + 1]]

\* data.py 51-57: entry[4] is the Arabic name and entry[5] the English one
get_sura_name(s, lang) ==
    IF lang = "ar" THEN <<"B_ar", "A_ar", "C_ar">>[s] ELSE <<"B", "A", "C">>[s]

\* bot.py 882-889
VideoTitle(r) ==
    LET sura_name == get_sura_name(r.sura, r.lang)
        count     == AyaCount[r.sura]
        is_full   == r.start_aya = 1 /\ r.end_aya = count
    IN  IF is_full THEN <<sura_name>>
        ELSE IF r.start_aya # r.end_aya
             THEN <<sura_name, " ", "(">> \o str(r.start_aya) \o <<"-">>
                  \o str(r.end_aya) \o <<")">>
             ELSE <<sura_name, " ", "(">> \o str(r.start_aya) \o <<")">>

\* video.py 260-261, with output_dir = OUTPUT_DIR / "video"
video_out_path(title) ==
    <<"video", "/">> \o MapChars(MapChars(title, {"/"}, "-"), {":"}, "-") \o <<".mp4">>

OutPathOf(i) == video_out_path(VideoTitle(vreq[i]))

\* A finished video is at path p
VideoCached(p) == \E f \in vdisk : f.path = p /\ f.st = "complete"

\* bot.py 862-891: the button is pressed and the title is built
VidCallback(i) ==
    /\ vpc[i] = "idle"
    /\ \E r \in VideoRequests : vreq' = [vreq EXCEPT ![i] = r]
    /\ vpc' = [vpc EXCEPT ![i] = "v_audio"]
    /\ UNCHANGED <<vseen, vdisk>>

\* bot.py 893-918, 940-941: gen_mp3 returns the audio path, or raises and the
\* handler replies with the error
VidAudio(i) ==
    /\ vpc[i] = "v_audio"
    /\ \/ vpc' = [vpc EXCEPT ![i] = "v_call"]
       \/ vpc' = [vpc EXCEPT ![i] = "v_done"]
    /\ UNCHANGED <<vreq, vseen, vdisk>>

\* video.py 209-254: gen_video builds the entries, renders every verse and
\* composes the clip; nothing on disk is looked at.  vseen records whether a
\* finished output file was there.
VidCompose(i) ==
    /\ vpc[i] = "v_call"
    /\ vseen' = [vseen EXCEPT ![i] = VideoCached(OutPathOf(i))]
    /\ vpc' = [vpc EXCEPT ![i] = "v_write"]
    /\ UNCHANGED <<vreq, vdisk>>

\* video.py 256-263: write_videofile opens out_path for writing
VidWrite(i) ==
    /\ vpc[i] = "v_write"
    /\ LET p     == OutPathOf(i)
           other == \E j \in Callers : j # i /\ vpc[j] = "v_close" /\ OutPathOf(j) = p
       IN  vdisk' = {f \in vdisk : f.path # p}
                    \cup {[path |-> p, st |-> IF other THEN "messy" ELSE "writing"]}
    /\ vpc' = [vpc EXCEPT ![i] = "v_close"]
    /\ UNCHANGED <<vreq, vseen>>

\* video.py 263-267: the encoder finishes and gen_video returns out_path
VidClose(i) ==
    /\ vpc[i] = "v_close"
    /\ LET p     == OutPathOf(i)
           other == \E j \in Callers : j # i /\ vpc[j] = "v_close" /\ OutPathOf(j) = p
           f     == CHOOSE g \in vdisk : g.path = p
           st    == IF f.st = "writing" THEN "complete"
                    ELSE IF other THEN "messy" ELSE "broken"
       IN  vdisk' = (vdisk \ {f}) \cup {[path |-> p, st |-> st]}
    /\ vpc' = [vpc EXCEPT ![i] = "v_reply"]
    /\ UNCHANGED <<vreq, vseen>>

\* bot.py 932-938: the file at video_path is sent
VidReply(i) ==
    /\ vpc[i] = "v_reply"
    /\ vpc' = [vpc EXCEPT ![i] = "v_done"]
    /\ UNCHANGED <<vreq, vseen, vdisk>>

VideoNext ==
    \/ \E i \in Callers : VidCallback(i) /\ UNCHANGED <<nluVars, audioVars, flowVars, pureVars, restVars>>
    \/ \E i \in Callers : VidAudio(i) /\ UNCHANGED <<nluVars, audioVars, flowVars, pureVars, restVars>>
    \/ \E i \in Callers : VidCompose(i) /\ UNCHANGED <<nluVars, audioVars, flowVars, pureVars, restVars>>
    \/ \E i \in Callers : VidWrite(i) /\ UNCHANGED <<nluVars, audioVars, flowVars, pureVars, restVars>>
    \/ \E i \in Callers : VidClose(i) /\ UNCHANGED <<nluVars, audioVars, flowVars, pureVars, restVars>>
    \/ \E i \in Callers : VidReply(i) /\ UNCHANGED <<nluVars, audioVars, flowVars, pureVars, restVars>>

VideoInit ==
    VideoQuiet /\ NluQuiet /\ AudioQuiet /\ FlowQuiet /\ PureQuiet /\ RestQuiet

VideoSpec == VideoInit /\ [][VideoNext]_vars

\* C16: a gen_video call that begins with its finished output file on disk composes
\* nothing and writes nothing.
C16_VideoServedFromDisk ==
    \A i \in Callers : vseen[i] => vpc[i] \notin {"v_write", "v_close"}

\* C17: two handlers whose requests differ in chapter, verse range or voice never
\* have the same output path open for writing.
C17_DistinctVideoPaths ==
    \A i, j \in Callers :
        /\ vpc[i] = "v_close" /\ vpc[j] = "v_close"
        /\ \/ vreq[i].sura # vreq[j].sura
           \/ vreq[i].start_aya # vreq[j].start_aya
           \/ vreq[i].end_aya # vreq[j].end_aya
           \/ vreq[i].voice # vreq[j].voice
        => OutPathOf(i) # OutPathOf(j)

(***************************************************************************)
(* search.py and core/search.py on a corpus of three verses (chapter 1 has *)
(* two, chapter 2 has one)                                                 *)
(***************************************************************************)
\* The longest query
MaxQuery == 3

RECURSIVE StringsOver(_, _)
StringsOver(A, n) ==
    IF n = 0 THEN {<<>>}
    ELSE LET S == StringsOver(A, n - 1)
         IN  S \cup {Append(s, c) : s \in {x \in S : Len(x) = n - 1}, c \in A}

\* Queries: letters in both cases, an Alif variant, a mark and spaces
Queries == StringsOver({"k", "K", "alif_madda", "fatha", " "}, MaxQuery)

\* The texts a verse of the corpus can have
VerseTexts == { <<"k", "alif", "k">>, <<"K", "k", "fatha">>, <<"alif_madda", " ", "k">> }

\* verses: every list of AyaCount[1] + AyaCount[2] texts
Corpora == [1..(AyaCount[1] + AyaCount[2]) -> VerseTexts]

\* quran_data["Page"]: an empty entry 0, then for every page the chapter and
\* verse it begins with, with or without a closing entry past the last chapter
CorpusPages == << <<>>, <<1, 1>>, <<1, 2>>, <<2, 1>> >>

PageTables == { CorpusPages, << <<>>, <<1, 1>>, <<2, 1>>, <<MaxSura + 1, 1>> >> }

\* What a get_page returns or raises
PageReturned(n) == [kind |-> "return", page |-> n, exc |-> ""]

PageRaised(e) == [kind |-> "raise", page |-> 0, exc |-> e]

\* ord(c)
CodePoint(c) ==
    CASE c = "tab" -> 9 [] c = " " -> 32 [] c = "K" -> 75 [] c = "k" -> 107
      [] c = "alif_madda" -> 1570 [] c = "alif" -> 1575 [] c = "fatha" -> 1614

\* str.lower()
lower(s) == MapChars(s, {"K"}, "k")

\* needle in haystack
IsSubstring(needle, hay) ==
    \E k \in 0..(Len(hay) - Len(needle)) : SubSeq(hay, k + 1, k + Len(needle)) = needle

\* search.py 79-85
RECURSIVE LocationFrom(_, _)
LocationFrom(sura_num, verse_index) ==
    IF sura_num > MaxSura THEN <<1, 1>>
    ELSE LET start == StartIndex(sura_num)
             count == VerseCount(sura_num)
         IN  IF start <= verse_index /\ verse_index < start + count
             THEN <<sura_num, verse_index - start + 1>>
             ELSE LocationFrom(sura_num + 1, verse_index)

get_location(verse_index) == LocationFrom(1, verse_index)

\* search.py 88-95: index k of the list is visited with page_num = k + 1, empty
\* entries are skipped, and from the first entry past (sura, aya) page_num - 1
\* is returned.  Pages[k + 1] is entry k of the list.
RECURSIVE PageLoop(_, _, _, _)
PageLoop(Pages, page_num, sura, aya) ==
    IF page_num > Len(Pages) THEN PageReturned(MaxPage)
    ELSE LET page_data == Pages[page_num]
         IN  IF page_data = <<>> \/ Len(page_data) < 2
             THEN PageLoop(Pages, page_num + 1, sura, aya)
             ELSE IF \/ page_data[1] > sura
                     \/ page_data[1] = sura /\ page_data[2] > aya
                  THEN PageReturned(page_num - 1)
                  ELSE PageLoop(Pages, page_num + 1, sura, aya)

search_get_page(Pages, sura, aya) == PageLoop(Pages, 1, sura, aya)

\* search.py 54-76: the loop over the verses from index i (verses[i + 1] is
\* verse i of the list)
RECURSIVE SearchLoop(_, _, _, _)
SearchLoop(Pages, verses, norm_query, i) ==
    IF i >= Len(verses) THEN <<>>
    ELSE LET verse == verses[i + 1]
             loc   == get_location(i)
             hit   == [text |-> verse, sura |-> loc[1], aya |-> loc[2],
                       page |-> search_get_page(Pages, loc[1], loc[2]).page]
         IN  (IF IsSubstring(norm_query, normalize_arabic(verse)) THEN <<hit>> ELSE <<>>)
             \o SearchLoop(Pages, verses, norm_query, i + 1)

\* A guard that lets queries of two characters through
TooShortBelowTwo(query) == Len(query) < 2

\* search.py 51: len(query) < 3
TooShort(query) == Len(query) < 3

\* search.py 50-76
search(Pages, verses, query) ==
    IF TooShort(query) THEN <<>>
    ELSE SearchLoop(Pages, verses, normalize_arabic(query), 0)

\* core/search.py 68-84: None is <<>>
RECURSIVE FindSuraFrom(_, _)
FindSuraFrom(sura_num, verse_index) ==
    IF sura_num > MaxSura THEN <<>>
    ELSE IF /\ StartIndex(sura_num) <= verse_index
            /\ verse_index < StartIndex(sura_num) + VerseCount(sura_num)
         THEN <<sura_num>>
         ELSE FindSuraFrom(sura_num + 1, verse_index)

_find_sura_for_verse_index(verse_index) == FindSuraFrom(1, verse_index)

\* difflib.SequenceMatcher(a, b): the number of matched characters, the longest
\* common block (the earliest in a, then in b) and the same left and right of it
RECURSIVE MatchingChars(_, _)
MatchingChars(a, b) ==
    LET Blocks == { t \in (1..Len(a)) \X (1..Len(b)) \X (1..Len(a)) :
                      /\ t[1] + t[3] - 1 <= Len(a)
                      /\ t[2] + t[3] - 1 <= Len(b)
                      /\ SubSeq(a, t[1], t[1] + t[3] - 1) = SubSeq(b, t[2], t[2] + t[3] - 1) }
        Better(t, u) == \/ t[3] > u[3]
                        \/ t[3] = u[3] /\ t[1] < u[1]
                        \/ t[3] = u[3] /\ t[1] = u[1] /\ t[2] < u[2]
    IN  IF Blocks = {} THEN 0
        ELSE LET m == CHOOSE t \in Blocks : \A u \in Blocks : u = t \/ Better(t, u)
             IN  m[3] + MatchingChars(SubSeq(a, 1, m[1] - 1), SubSeq(b, 1, m[2] - 1))
                      + MatchingChars(SubSeq(a, m[1] + m[3], Len(a)),
                                      SubSeq(b, m[2] + m[3], Len(b)))

\* x > y for strings
RECURSIVE StrGreater(_, _)
StrGreater(x, y) ==
    IF x = <<>> THEN FALSE
    ELSE IF y = <<>> THEN TRUE
    ELSE IF Head(x) # Head(y) THEN CodePoint(Head(x)) > CodePoint(Head(y))
    ELSE StrGreater(Tail(x), Tail(y))

\* difflib.get_close_matches(word, possibilities, n, cutoff = 0.6) with n not
\* below the number of possibilities: those with ratio 2 * M / T >= 0.6, the
\* best first, equal ratios by the text
get_close_matches(word, possibilities) ==
    LET M(i) == MatchingChars(possibilities[i], word)
        T(i) == Len(possibilities[i]) + Len(word)
        Close == {i \in DOMAIN possibilities : 10 * M(i) >= 3 * T(i)}
        Before(i, j) == \/ M(i) * T(j) > M(j) * T(i)
                        \/ /\ M(i) * T(j) = M(j) * T(i)
                           /\ StrGreater(possibilities[i], possibilities[j])
        RECURSIVE Largest(_)
        Largest(S) ==
            IF S = {} THEN <<>>
            ELSE LET m == CHOOSE i \in S : \A j \in S : ~Before(j, i)
                 IN  <<possibilities[m]>> \o Largest(S \ {m})
    IN  Largest(Close)

\* core/search.py 26-65 with max_results = 10, more than the corpus holds
search_verses(verses, query) ==
    LET query_lower == lower(query)
        RECURSIVE Phase1(_)
        Phase1(i) ==
            IF i >= Len(verses) THEN <<>>
            ELSE LET sura_idx == _find_sura_for_verse_index(i)
                 IN  (IF IsSubstring(query_lower, lower(verses[i + 1])) /\ sura_idx # <<>>
                      THEN <<[sura |-> sura_idx[1], aya |-> i - StartIndex(sura_idx[1]) + 1,
                              text |-> verses[i + 1]]>>
                      ELSE <<>>)
                     \o Phase1(i + 1)
        RECURSIVE Phase2(_)
        Phase2(close) ==
            IF close = <<>> THEN <<>>
            ELSE LET i == (CHOOSE k \in DOMAIN verses :
                             /\ verses[k] = Head(close)
                             /\ \A l \in 1..(k - 1) : verses[l] # Head(close)) - 1
                     sura_idx == _find_sura_for_verse_index(i)
                 IN  (IF sura_idx # <<>>
                      THEN <<[sura |-> sura_idx[1], aya |-> i - StartIndex(sura_idx[1]) + 1,
                              text |-> Head(close)]>>
                      ELSE <<>>)
                     \o Phase2(Tail(close))
    IN  IF query = <<>> \/ TooShort(query) THEN <<>>
        ELSE IF Phase1(0) # <<>> THEN Phase1(0)
        ELSE Phase2(get_close_matches(query, verses))

SearchInputs ==
    { [f |-> "search", arg |-> [verses |-> v, query |-> q]] : v \in Corpora, q \in Queries }
    \cup { [f |-> "search_verses", arg |-> [verses |-> v, query |-> q]] :
             v \in Corpora, q \in Queries }

ApplySearch ==
    /\ fn = "none"
    /\ input.f = "search"
    /\ fn' = "search"
    /\ output' = search(CorpusPages, input.arg.verses, input.arg.query)
    /\ UNCHANGED input

ApplySearchVerses ==
    /\ fn = "none"
    /\ input.f = "search_verses"
    /\ fn' = "search_verses"
    /\ output' = search_verses(input.arg.verses, input.arg.query)
    /\ UNCHANGED input

\* C18: search and search_verses return the empty list for every query of fewer
\* than 3 characters, whatever the verses are.
C18_ShortQueryEmpty ==
    fn \in {"search", "search_verses"} /\ Len(input.arg.query) < 3 => output = <<>>

\* A query of two characters that the first verse contains once both are
\* normalized
C18_Witness ==
    /\ fn = "search"
    /\ input.arg.query = <<"k", "alif_madda">>
    /\ input.arg.verses[1] = <<"k", "alif", "k">>
    /\ output = <<>>

\* data.py 65-71: the same loop without the skip; page_data[0] and page_data[1]
\* raise IndexError on an entry shorter than two
RECURSIVE DataPageLoop(_, _, _, _)
DataPageLoop(Pages, page_num, sura, aya) ==
    IF page_num > Len(Pages) THEN PageReturned(MaxPage)
    ELSE LET page_data == Pages[page_num]
         IN  IF Len(page_data) < 2 THEN PageRaised("IndexError")
             ELSE IF \/ page_data[1] > sura
                     \/ page_data[1] = sura /\ page_data[2] > aya
                  THEN PageReturned(page_num - 1)
                  ELSE DataPageLoop(Pages, page_num + 1, sura, aya)

data_get_page(Pages, sura, aya) == DataPageLoop(Pages, 1, sura, aya)

\* The verses of the first chapters, with every page table
PageInputs ==
    { [f |-> g, arg |-> [pages |-> P, sura |-> v[1], aya |-> v[2]]] :
        g \in {"search.get_page", "data.get_page"}, P \in PageTables,
        v \in {w \in (1..3) \X (1..2) : w[2] <= VerseCount(w[1])} }

ApplySearchGetPage ==
    /\ fn = "none"
    /\ input.f = "search.get_page"
    /\ fn' = "search.get_page"
    /\ output' = search_get_page(input.arg.pages, input.arg.sura, input.arg.aya)
    /\ UNCHANGED input

ApplyDataGetPage ==
    /\ fn = "none"
    /\ input.f = "data.get_page"
    /\ fn' = "data.get_page"
    /\ output' = data_get_page(input.arg.pages, input.arg.sura, input.arg.aya)
    /\ UNCHANGED input

\* The page boundary e lies past (sura, aya)
Exceeds(e, sura, aya) == e[1] > sura \/ (e[1] = sura /\ e[2] > aya)

\* bot.py 664-680: page_handler shows under page p the verses from entry p of
\* the table up to the verse before entry p + 1 (Pages[p + 1] is entry p)
PagesShowing(Pages, sura, aya) ==
    { p \in 1..(Len(Pages) - 1) :
        /\ ~Exceeds(Pages[p + 1], sura, aya)
        /\ p + 1 < Len(Pages) => Exceeds(Pages[p + 2], sura, aya) }

\* C19: get_page returns the page whose start is the greatest boundary not past
\* (sura, aya), in page_handler's numbering, and 604 when no boundary lies past
\* it.
C19_PageOfVerse ==
    fn \in {"search.get_page", "data.get_page"} =>
        LET P == input.arg.pages
            s == input.arg.sura
            a == input.arg.aya
        IN  IF \E p \in 1..(Len(P) - 1) : Exceeds(P[p + 1], s, a)
            THEN output.kind = "return" /\ output.page \in PagesShowing(P, s, a)
            ELSE output = PageReturned(MaxPage)

(***************************************************************************)
(* search.py normalize_arabic on every short text of the characters it     *)
(* rewrites                                                                *)
(***************************************************************************)
\* The longest text normalized
MaxText == 3

NormAlphabet ==
    {"alif_madda", "alif_maksura", "waw_hamza", "fatha", "tatweel", "zwnj", " ", "tab", "k"}

NormInputs ==
    { [f |-> "normalize_arabic", arg |-> [text |-> x]] : x \in StringsOver(NormAlphabet, MaxText) }

ApplyNormalize ==
    /\ fn = "none"
    /\ input.f = "normalize_arabic"
    /\ fn' = "normalize_arabic"
    /\ output' = normalize_arabic(input.arg.text)
    /\ UNCHANGED input

\* C20: normalizing a normalized text changes nothing.
C20_NormalizeIdempotent ==
    fn = "normalize_arabic" => normalize_arabic(output) = output

\* A text with an Alif variant, a tab and an Alif Maksura
C20_Witness ==
    /\ fn = "normalize_arabic"
    /\ input.arg.text = <<"alif_madda", "tab", "alif_maksura">>
    /\ output = <<"alif", " ", "ya">>

(***************************************************************************)
(* core/audio.py gen_srt on the timings of every range of the corpus       *)
(***************************************************************************)
\* verses: the texts of the verses of the first three chapters, in order
CorpusVerses ==
    << <<"k", "alif", "k">>, <<"K", "k", "fatha">>, <<"alif_madda", " ", "k">>,
       <<"k", "k">>, <<"alif">> >>

\* The texts of the clips of a range, as the caller passes them with the timings
VersesOf(r) ==
    [k \in DOMAIN NeededClips(r) |->
        CorpusVerses[StartIndex(NeededClips(r)[k][1]) + NeededClips(r)[k][2]]]

\* f"{n:0{w}d}", as characters
ZeroPad(n, w) ==
    LET d == str(n)
    IN  IF Len(d) >= w THEN d ELSE [i \in 1..(w - Len(d)) |-> "0"] \o d

\* core/audio.py 249-263
format_timestamp_srt(ms) ==
    LET hours   == ms \div 3600000
        minutes == (ms % 3600000) \div 60000
        seconds == (ms % 60000) \div 1000
        millis  == ms % 1000
    IN  ZeroPad(hours, 2) \o <<":">> \o ZeroPad(minutes, 2) \o <<":">>
        \o ZeroPad(seconds, 2) \o <<",">> \o ZeroPad(millis, 3)

\* The separator of the SubRip format
SrtArrow == <<"-", "-", ">">>

\* core/audio.py 342: the three characters between the times in the source
\* file (U+00E2, U+2020, U+2019)
SourceArrow == <<"a_circumflex", "dagger", "right_quote">>

\* core/audio.py 337-345: zip(timings, verses) from cue number counter on
RECURSIVE SrtLines(_, _, _)
SrtLines(timings, verses, counter) ==
    IF timings = <<>> \/ verses = <<>> THEN <<>>
    ELSE LET start == format_timestamp_srt(Head(timings).start_ms)
             end   == format_timestamp_srt(Head(timings).end_ms)
         IN  << str(counter), start \o <<" ">> \o SourceArrow \o <<" ">> \o end,
                Head(verses), <<>> >>
             \o SrtLines(Tail(timings), Tail(verses), counter + 1)

\* core/audio.py 308-349: the path returned and the lines written to it
\* (nothing is written when the file is there already)
gen_srt(timings, verses, exists) ==
    IF timings = <<>> \/ verses = <<>>
    THEN [kind |-> "raise", path |-> <<>>, wrote |-> FALSE, lines |-> <<>>]
    ELSE LET first == timings[1]
             last  == timings[Len(timings)]
             id    == Pad3(first.sura) \o Pad3(first.aya) \o Pad3(last.sura) \o Pad3(last.aya)
             path  == <<Voice, "-">> \o id \o <<".srt">>
         IN  IF exists
             THEN [kind |-> "return", path |-> path, wrote |-> FALSE, lines |-> <<>>]
             ELSE [kind |-> "return", path |-> path, wrote |-> TRUE,
                   lines |-> SrtLines(timings, verses, 1)]

SrtInputs ==
    UNION { { [f |-> "gen_srt",
               arg |-> [timings |-> gen_timings(r, d), verses |-> VersesOf(r), exists |-> e]] :
                d \in [ClipSet(r) -> Measures], e \in BOOLEAN } : r \in TimingRanges }

GenSrt ==
    /\ fn = "none"
    /\ input.f = "gen_srt"
    /\ fn' = "gen_srt"
    /\ output' = gen_srt(input.arg.timings, input.arg.verses, input.arg.exists)
    /\ UNCHANGED input

\* The number of milliseconds a text of the form HH:MM:SS,mmm stands for, or -1
TimestampMs(t) ==
    LET D(i) == CHOOSE n \in 0..9 : DecimalDigit[n + 1] = t[i]
    IN  IF /\ Len(t) = 12
           /\ t[3] = ":" /\ t[6] = ":" /\ t[9] = ","
           /\ \A i \in {1, 2, 4, 5, 7, 8, 10, 11, 12} :
                \E n \in 0..9 : DecimalDigit[n + 1] = t[i]
        THEN (10 * D(1) + D(2)) * 3600000 + (10 * D(4) + D(5)) * 60000
             + (10 * D(7) + D(8)) * 1000 + 100 * D(10) + 10 * D(11) + D(12)
        ELSE -1

\* C21: the file gen_srt writes has, for the k-th verse of the request, the cue
\* number k, the line "<start> --> <end>" with both times in HH:MM:SS,mmm form
\* standing for the verse's start_ms and end_ms, the verse text and an empty
\* line.
C21_SrtCues ==
    fn = "gen_srt" /\ output.wrote =>
        /\ Len(output.lines) = 4 * Len(input.arg.verses)
        /\ \A k \in DOMAIN input.arg.verses :
             LET line == output.lines[4 * k - 2]
             IN  /\ output.lines[4 * k - 3] = str(k)
                 /\ Len(line) = 12 + 5 + 12
                 /\ TimestampMs(SubSeq(line, 1, 12)) = input.arg.timings[k].start_ms
                 /\ SubSeq(line, 13, 17) = <<" ">> \o SrtArrow \o <<" ">>
                 /\ TimestampMs(SubSeq(line, 18, 29)) = input.arg.timings[k].end_ms
                 /\ output.lines[4 * k - 1] = input.arg.verses[k]

\* The functions on every argument of their bounded sets
PureInit ==
    /\ fn = "none"
    /\ \/ input \in TimingInputs
       \/ input \in SearchInputs
       \/ input \in PageInputs
       \/ input \in NormInputs
       \/ input \in SrtInputs
    /\ output = <<>>
    /\ NluQuiet /\ AudioQuiet /\ FlowQuiet /\ VideoQuiet /\ RestQuiet

PureNext ==
    \/ GenTimings /\ UNCHANGED <<nluVars, audioVars, flowVars, videoVars, restVars>>
    \/ ApplySearch /\ UNCHANGED <<nluVars, audioVars, flowVars, videoVars, restVars>>
    \/ ApplySearchVerses /\ UNCHANGED <<nluVars, audioVars, flowVars, videoVars, restVars>>
    \/ ApplySearchGetPage /\ UNCHANGED <<nluVars, audioVars, flowVars, videoVars, restVars>>
    \/ ApplyDataGetPage /\ UNCHANGED <<nluVars, audioVars, flowVars, videoVars, restVars>>
    \/ ApplyNormalize /\ UNCHANGED <<nluVars, audioVars, flowVars, videoVars, restVars>>
    \/ GenSrt /\ UNCHANGED <<nluVars, audioVars, flowVars, videoVars, restVars>>

PureSpec == PureInit /\ [][PureNext]_vars

====
